---- MODULE Spec2Model ----
(***************************************************************************)
(* Streaming progress pipeline of the dashboard.                           *)
(*                                                                         *)
(*  - analyzeDataStreaming (services/api) and the handleSubmit handler of  *)
(*    QueryInterface that drives it;                                       *)
(*  - executeBenchmarkTask (services/benchmark) and the handleExecute      *)
(*    handler of BenchmarkInterface that drives it;                        *)
(*  - the mounting of BenchmarkInterface by App (tab switches);            *)
(*  - parseOpportunities and its extract helpers of ActionableInsights;    *)
(*  - categorizeInsights, parseProblems and the renders of                 *)
(*    ActionableInsights.                                                  *)
(*                                                                         *)
(* A text is a sequence of symbols.  The symbols of "data: " and the line  *)
(* feed are the real characters; a JSON body (the text between the braces  *)
(* of an envelope) is one symbol that stands for a run of characters       *)
(* holding neither a line feed nor a brace.  The text parseOpportunities   *)
(* reads is a sequence of characters throughout.                           *)
(***************************************************************************)
EXTENDS Integers, Sequences, FiniteSets, TLC

\* ------------------------------------------------------------------ bounds
MaxRecords == 2
MaxSessions == 2
MaxBenchEvents == 2
MaxExecutions == 2
MaxLines == 6
MaxInsights == 2
MaxRenders == 3

\* ------------------------------------------------------------ text helpers
LF == "\n"

\* 'data: ', the prefix tested by line.startsWith and removed by slice(6)
DataPrefix == <<"d", "a", "t", "a", ":", " ">>

\* the record delimiter of analyzeDataStreaming: buffer.split('\n\n')
RecordDelimiter == <<LF, LF>>

\* String.prototype.startsWith
StartsWith(s, p) == Len(s) >= Len(p) /\ SubSeq(s, 1, Len(p)) = p

\* String.prototype.slice(n) for 0 <= n
Slice(s, n) == SubSeq(s, n + 1, Len(s))

RECURSIVE SplitFrom(_, _, _, _)
\* the pieces of s from start on, the next separator sought from i on
SplitFrom(s, sep, i, start) ==
    LET hits == {k \in i..(Len(s) - Len(sep) + 1) : SubSeq(s, k, k + Len(sep) - 1) = sep}
    IN  IF hits = {}
        THEN << SubSeq(s, start, Len(s)) >>
        ELSE LET k == CHOOSE h \in hits : \A j \in hits : h <= j
             IN  << SubSeq(s, start, k - 1) >>
                     \o SplitFrom(s, sep, k + Len(sep), k + Len(sep))

\* String.prototype.split(sep): leftmost, non-overlapping separators
Split(s, sep) == SplitFrom(s, sep, 1, 1)

\* Array.prototype.pop: the last element, and the array without it
Last(a) == a[Len(a)]
Front(a) == SubSeq(a, 1, Len(a) - 1)

\* ------------------------------------------------------------ JSON bodies
\* The envelopes the analysis endpoint can emit.  hasMessage / hasProgress
\* tell whether the field is present (and truthy) in the envelope.
AnalysisBodies ==
    [ status   |-> [type |-> "status",   hasMessage |-> TRUE,  message |-> "Working",
                    hasProgress |-> TRUE,  progress |-> 30],
      partial  |-> [type |-> "partial",  hasMessage |-> FALSE, message |-> "",
                    hasProgress |-> FALSE, progress |-> 0],
      tool     |-> [type |-> "tool",     hasMessage |-> TRUE,  message |-> "Using tool",
                    hasProgress |-> FALSE, progress |-> 0],
      complete |-> [type |-> "complete", hasMessage |-> TRUE,  message |-> "Done",
                    hasProgress |-> TRUE,  progress |-> 100],
      error    |-> [type |-> "error",    hasMessage |-> TRUE,  message |-> "Server error",
                    hasProgress |-> FALSE, progress |-> 0],
      ping     |-> [type |-> "ping",     hasMessage |-> FALSE, message |-> "",
                    hasProgress |-> FALSE, progress |-> 0] ]

BodySymbols == DOMAIN AnalysisBodies

\* JSON.parse succeeds on '{' body '}' and throws on anything else
JSONValid(text) ==
    /\ Len(text) = 3
    /\ text[1] = "{"
    /\ text[3] = "}"
    /\ text[2] \in BodySymbols

\* --------------------------------------------------------- the server side
\* The record texts a response body is made of (delimiter not included):
\* a well-formed record per envelope, a record whose JSON is cut short, and
\* a record without the 'data: ' prefix.
WellFormedRecord(body) == DataPrefix \o <<"{", body, "}">>
TruncatedRecord == DataPrefix \o <<"{", "status">>
UnprefixedRecord == <<"{", "status", "}">>

RecordTexts ==
    {WellFormedRecord(b) : b \in BodySymbols} \cup {TruncatedRecord, UnprefixedRecord}

\* ------------------------------------------------------------------- state
VARIABLES
    session,            \* number of handleSubmit calls that reached the stream
    sent,               \* the record texts the server has written to the body
    terminated,         \* whether the last of them was followed by its delimiter
    closed,             \* whether the server has closed the body
    stream,             \* the bytes the server has written to the body
    pos,                \* how many of them the reader has delivered
    fragmented,         \* whether some read has ended inside a record
    apiPc,              \* position of analyzeDataStreaming
    buffer,             \* let buffer
    calls,              \* the handler invocations of this session, in order
    log,                \* console.log('SSE message received'), in order
    promise,            \* state of the returned promise
    settles,            \* number of resolve / reject calls
    failure,            \* the transport failure of this session, if any
    isLoading,          \* App state
    insights,           \* App state (0: null, k: the insights of session k)
    streamingStatus,    \* QueryInterface state
    streamingProgress,  \* QueryInterface state
    closureProgress,    \* streamingProgress as captured by handleSubmit
    toasts,             \* the notifications of this session
    submitPc,           \* position of handleSubmit
    execution,          \* number of handleExecute calls that reached the fetch
    benchSent,          \* the envelopes the server has written to the body
    benchClosed,        \* whether the server has closed the body
    benchStream,        \* the bytes the server has written to the body
    benchPos,           \* how many of them the reader has delivered
    benchPc,            \* position of executeBenchmarkTask
    benchCalls,         \* the callback invocations of this execution, in order
    executing,          \* BenchmarkInterface state
    progress,           \* BenchmarkInterface state
    status,             \* BenchmarkInterface state
    progressLog,        \* BenchmarkInterface state
    executionPhases,    \* BenchmarkInterface state: the four phase statuses
    benchToasts,        \* the notifications of this execution
    benchmarkResult,    \* App state (0: null, k: the result of execution k)
    resetTimers,        \* pending setTimeout(..., 2000) callbacks of onComplete
    orphans,            \* executions still read for an unmounted BenchmarkInterface
    content,            \* insight.content of the opportunity insight rendered
    parsed,             \* whether parseOpportunities has run on it
    opportunities,      \* parseOpportunities: const opportunities, after the loops
    unique,             \* parseOpportunities: const unique
    returned,           \* the array parseOpportunities returns
    analysis,           \* ActionableInsights: the insights prop
    categories,         \* ActionableInsights: const categories of the last render
    cards,              \* ActionableInsights: const opportunities of the last render
    problems,           \* ActionableInsights: const problems of the last render
    expandedSections,   \* ActionableInsights state: expandedSections.recommendations
    expandedOpportunities, \* ActionableInsights state: the indices set to true
    extractions,        \* how many times the component body has run the extraction
    renderPending       \* whether React has a render of ActionableInsights to do

streamVars == <<session, sent, terminated, closed, stream, pos, fragmented, apiPc, buffer, calls,
                log, promise, settles, failure, isLoading, insights, streamingStatus,
                streamingProgress, closureProgress, toasts, submitPc>>

benchVars == <<execution, benchSent, benchClosed, benchStream, benchPos, benchPc, benchCalls,
               executing, progress, status, progressLog, executionPhases,
               benchToasts, benchmarkResult, resetTimers, orphans>>

insightVars == <<analysis, categories, cards, problems, expandedSections,
                 expandedOpportunities, extractions, renderPending>>

extractVars == <<content, parsed, opportunities, unique, returned, insightVars>>

vars == <<streamVars, benchVars, extractVars>>

\* -------------------------------------------- QueryInterface's callbacks
\* The callbacks act on ui = [streamingStatus, streamingProgress, insights,
\* toasts]; env = [session, closureProgress] is what the closures captured.
QOnStatus(ui, data, env) ==
    [ui EXCEPT !.streamingStatus = data.message,
               !.streamingProgress = IF data.hasProgress /\ data.progress # 0
                                     THEN data.progress ELSE 0]

QOnPartial(ui, data, env) ==
    [ui EXCEPT !.streamingStatus = IF data.hasMessage THEN data.message
                                   ELSE "Analyzing...",
               !.streamingProgress = IF data.hasProgress /\ data.progress # 0
                                     THEN data.progress ELSE 50]

QOnTool(ui, data, env) ==
    [ui EXCEPT !.streamingStatus = data.message,
               !.streamingProgress = IF data.hasProgress /\ data.progress # 0
                                     THEN data.progress ELSE env.closureProgress]

QOnComplete(ui, data, env) ==
    [ui EXCEPT !.insights = env.session,
               !.toasts = Append(@, "success"),
               !.streamingStatus = "",
               !.streamingProgress = 100]

QOnError(ui, data, env) ==
    [ui EXCEPT !.toasts = Append(@, "error"),
               !.streamingStatus = "",
               !.streamingProgress = 0]

\* ------------------------------------------------- analyzeDataStreaming
\* st = [calls, log, promise, settles, returned, ui]: what the body of the
\* reader's then-callback has done so far; returned: it has hit a return.
Invoke(st, handler, body) ==
    [st EXCEPT !.calls = Append(@, [handler |-> handler, body |-> body])]

\* resolve(data) / reject(error): only the first call settles the promise
Settle(st, outcome) ==
    [st EXCEPT !.promise = IF @ = "pending" THEN outcome ELSE @,
               !.settles = @ + 1]

\* HandleMessage with the break of case 'status' missing: the record falls
\* through to case 'partial'
HandleMessage_StatusFallsThrough(st, body, env) ==
    LET data == AnalysisBodies[body]
        logged == [st EXCEPT !.log = Append(@, body)]
    IN  CASE data.type = "status" ->
                [Invoke(Invoke(logged, "onStatus", body), "onPartial", body)
                    EXCEPT !.ui = QOnPartial(QOnStatus(@, data, env), data, env)]
          [] data.type = "partial" ->
                [Invoke(logged, "onPartial", body) EXCEPT !.ui = QOnPartial(@, data, env)]
          [] data.type = "tool" ->
                [Invoke(logged, "onTool", body) EXCEPT !.ui = QOnTool(@, data, env)]
          [] data.type = "complete" ->
                [Settle(Invoke(logged, "onComplete", body), "resolved")
                    EXCEPT !.ui = QOnComplete(@, data, env), !.returned = TRUE]
          [] data.type = "error" ->
                [Settle(Invoke(logged, "onError", body), "rejected")
                    EXCEPT !.ui = QOnError(@, data, env), !.returned = TRUE]
          [] OTHER -> logged

\* HandleMessage with case 'error' ended by break instead of return
HandleMessage_ErrorBreaks(st, body, env) ==
    LET data == AnalysisBodies[body]
        logged == [st EXCEPT !.log = Append(@, body)]
    IN  CASE data.type = "status" ->
                [Invoke(logged, "onStatus", body) EXCEPT !.ui = QOnStatus(@, data, env)]
          [] data.type = "partial" ->
                [Invoke(logged, "onPartial", body) EXCEPT !.ui = QOnPartial(@, data, env)]
          [] data.type = "tool" ->
                [Invoke(logged, "onTool", body) EXCEPT !.ui = QOnTool(@, data, env)]
          [] data.type = "complete" ->
                [Settle(Invoke(logged, "onComplete", body), "resolved")
                    EXCEPT !.ui = QOnComplete(@, data, env), !.returned = TRUE]
          [] data.type = "error" ->
                [Settle(Invoke(logged, "onError", body), "rejected")
                    EXCEPT !.ui = QOnError(@, data, env)]
          [] OTHER -> logged

\* HandleMessage with case 'complete' ended by break instead of return
HandleMessage_CompleteBreaks(st, body, env) ==
    LET data == AnalysisBodies[body]
        logged == [st EXCEPT !.log = Append(@, body)]
    IN  CASE data.type = "status" ->
                [Invoke(logged, "onStatus", body) EXCEPT !.ui = QOnStatus(@, data, env)]
          [] data.type = "partial" ->
                [Invoke(logged, "onPartial", body) EXCEPT !.ui = QOnPartial(@, data, env)]
          [] data.type = "tool" ->
                [Invoke(logged, "onTool", body) EXCEPT !.ui = QOnTool(@, data, env)]
          [] data.type = "complete" ->
                [Settle(Invoke(logged, "onComplete", body), "resolved")
                    EXCEPT !.ui = QOnComplete(@, data, env)]
          [] data.type = "error" ->
                [Settle(Invoke(logged, "onError", body), "rejected")
                    EXCEPT !.ui = QOnError(@, data, env), !.returned = TRUE]
          [] OTHER -> logged

\* the switch (data.type) of the read loop, after the console.log
HandleMessage(st, body, env) ==
    LET data == AnalysisBodies[body]
        logged == [st EXCEPT !.log = Append(@, body)]
    IN  CASE data.type = "status" ->
                [Invoke(logged, "onStatus", body) EXCEPT !.ui = QOnStatus(@, data, env)]
          [] data.type = "partial" ->
                [Invoke(logged, "onPartial", body) EXCEPT !.ui = QOnPartial(@, data, env)]
          [] data.type = "tool" ->
                [Invoke(logged, "onTool", body) EXCEPT !.ui = QOnTool(@, data, env)]
          [] data.type = "complete" ->
                [Settle(Invoke(logged, "onComplete", body), "resolved")
                    EXCEPT !.ui = QOnComplete(@, data, env), !.returned = TRUE]
          [] data.type = "error" ->
                [Settle(Invoke(logged, "onError", body), "rejected")
                    EXCEPT !.ui = QOnError(@, data, env), !.returned = TRUE]
          [] OTHER -> logged

\* ProcessLine without the try / catch around JSON.parse: the SyntaxError
\* reaches the .catch of reader.read(), which reports it and rejects
ProcessLine_NoTryCatch(st, line, env) ==
    IF ~StartsWith(line, DataPrefix) THEN st
    ELSE LET text == Slice(line, 6)
         IN  IF JSONValid(text)
             THEN HandleMessage(st, text[2], env)
             ELSE [Settle(Invoke(st, "onError", "transport"), "rejected")
                      EXCEPT !.ui = QOnError(@, [message |-> "syntax"], env),
                             !.returned = TRUE]

\* one iteration of for (const line of lines)
ProcessLine(st, line, env) ==
    IF ~StartsWith(line, DataPrefix) THEN st
    ELSE LET text == Slice(line, 6)
         IN  IF JSONValid(text)
             THEN HandleMessage(st, text[2], env)
             ELSE st        \* catch (e): console.error, next line

RECURSIVE ProcessLines(_, _, _)
\* for (const line of lines) { ... }, left by a return
ProcessLines(st, lines, env) ==
    IF lines = <<>> \/ st.returned THEN st
    ELSE ProcessLines(ProcessLine(st, Head(lines), env), Tail(lines), env)

\* OnChunk with buffer = decoder.decode(...) in place of buffer += ...: the
\* incomplete record kept from the read before is lost
OnChunk_DropsBuffer(buf, value, st, env) ==
    LET lines == Split(value, RecordDelimiter)
    IN  [buffer |-> Last(lines),
         st |-> ProcessLines(st, Front(lines), env)]

\* the then-callback of reader.read() for { done: false, value }
OnChunk(buf, value, st, env) ==
    LET joined == buf \o value
        lines == Split(joined, RecordDelimiter)
    IN  [buffer |-> Last(lines),
         st |-> ProcessLines(st, Front(lines), env)]

\* OnTransportError with the onError call left out: it only rejects
OnTransportError_OnlyRejects(st, env) == Settle(st, "rejected")

\* the two .catch handlers: onError({ message }), reject(error)
OnTransportError(st, env) ==
    [Settle(Invoke(st, "onError", "transport"), "rejected")
        EXCEPT !.ui = QOnError(@, [message |-> "transport"], env)]

\* ---------------------------------------- actions: the analysis session
CurrentUi ==
    [streamingStatus |-> streamingStatus, streamingProgress |-> streamingProgress,
     insights |-> insights, toasts |-> toasts]

CurrentSt ==
    [calls |-> calls, log |-> log, promise |-> promise, settles |-> settles,
     returned |-> FALSE, ui |-> CurrentUi]

CurrentEnv == [session |-> session, closureProgress |-> closureProgress]

Commit(st) ==
    /\ calls' = st.calls
    /\ log' = st.log
    /\ promise' = st.promise
    /\ settles' = st.settles
    /\ streamingStatus' = st.ui.streamingStatus
    /\ streamingProgress' = st.ui.streamingProgress
    /\ insights' = st.ui.insights
    /\ toasts' = st.ui.toasts

\* handleSubmit up to the await, for queryType 'analyze' and a non-blank
\* query; the submit button is disabled while isLoading
Submit ==
    /\ ~isLoading
    /\ session < MaxSessions
    /\ session' = session + 1
    /\ sent' = <<>>
    /\ terminated' = TRUE
    /\ closed' = FALSE
    /\ stream' = <<>>
    /\ pos' = 0
    /\ fragmented' = FALSE
    /\ apiPc' = "fetching"
    /\ buffer' = <<>>
    /\ calls' = <<>>
    /\ log' = <<>>
    /\ promise' = "pending"
    /\ settles' = 0
    /\ failure' = "none"
    /\ isLoading' = TRUE
    /\ streamingStatus' = "Initializing..."
    /\ streamingProgress' = 0
    /\ closureProgress' = streamingProgress
    /\ toasts' = <<>>
    /\ submitPc' = "awaiting"
    /\ UNCHANGED <<insights, benchVars, extractVars>>

\* the server writes one more record to the body, followed by a blank line
\* or (delimited = FALSE) left without it as the body's last bytes
Emit(rec, delimited) ==
    /\ apiPc = "reading"
    /\ ~closed
    /\ Len(sent) < MaxRecords
    /\ sent' = Append(sent, rec)
    /\ terminated' = delimited
    /\ closed' = ~delimited
    /\ stream' = stream \o rec \o (IF delimited THEN RecordDelimiter ELSE <<>>)
    /\ UNCHANGED <<session, pos, fragmented, apiPc, buffer, calls, log, promise, settles,
                   failure, isLoading, insights, streamingStatus, streamingProgress,
                   closureProgress, toasts, submitPc, benchVars, extractVars>>

\* the server closes the body
Close ==
    /\ apiPc = "reading"
    /\ ~closed
    /\ closed' = TRUE
    /\ UNCHANGED <<session, sent, terminated, stream, pos, fragmented, apiPc, buffer, calls,
                   log, promise, settles, failure, isLoading, insights, streamingStatus,
                   streamingProgress, closureProgress, toasts, submitPc, benchVars, extractVars>>

\* fetch rejects, or answers with a non-success status: the outer .catch
FetchFails(kind) ==
    /\ apiPc = "fetching"
    /\ \E st \in {OnTransportError(CurrentSt, CurrentEnv)} : Commit(st)
    /\ failure' = kind
    /\ apiPc' = "failed"
    /\ UNCHANGED <<session, sent, terminated, closed, stream, pos, fragmented, buffer, isLoading,
                   closureProgress, submitPc, benchVars, extractVars>>

\* response.ok: getReader, first readStream()
FetchOk ==
    /\ apiPc = "fetching"
    /\ apiPc' = "reading"
    /\ UNCHANGED <<session, sent, terminated, closed, stream, pos, fragmented, buffer, calls, log,
                   promise, settles, failure, isLoading, insights, streamingStatus,
                   streamingProgress, closureProgress, toasts, submitPc, benchVars, extractVars>>

\* reader.read() delivers the next n bytes
Read(n) ==
    /\ apiPc = "reading"
    /\ n \in 1..(Len(stream) - pos)
    /\ \E r \in {OnChunk(buffer, SubSeq(stream, pos + 1, pos + n), CurrentSt, CurrentEnv)} :
           /\ buffer' = r.buffer
           /\ fragmented' = (fragmented \/ r.buffer # <<>>)
           /\ Commit(r.st)
           /\ apiPc' = IF r.st.returned THEN "returned" ELSE "reading"
    /\ pos' = pos + n
    /\ UNCHANGED <<session, sent, terminated, closed, stream, failure, isLoading,
                   closureProgress, submitPc, benchVars, extractVars>>

\* reader.read() answers { done: true }: 'Stream ended', return
StreamEnd ==
    /\ apiPc = "reading"
    /\ closed
    /\ pos = Len(stream)
    /\ apiPc' = "ended"
    /\ UNCHANGED <<session, sent, terminated, closed, stream, pos, fragmented, buffer, calls, log,
                   promise, settles, failure, isLoading, insights, streamingStatus,
                   streamingProgress, closureProgress, toasts, submitPc, benchVars, extractVars>>

\* reader.read() rejects: the inner .catch
ReadFails ==
    /\ apiPc = "reading"
    /\ \E st \in {OnTransportError(CurrentSt, CurrentEnv)} : Commit(st)
    /\ failure' = "read"
    /\ apiPc' = "failed"
    /\ UNCHANGED <<session, sent, terminated, closed, stream, pos, fragmented, buffer, isLoading,
                   closureProgress, submitPc, benchVars, extractVars>>

\* handleSubmit after the await: the catch block when the promise was
\* rejected, then finally
AwaitResumes ==
    /\ submitPc = "awaiting"
    /\ promise # "pending"
    /\ IF promise = "rejected"
       THEN /\ toasts' = Append(toasts, "error")
            /\ streamingStatus' = ""
            /\ streamingProgress' = 0
       ELSE UNCHANGED <<toasts, streamingStatus, streamingProgress>>
    /\ isLoading' = FALSE
    /\ submitPc' = "idle"
    /\ UNCHANGED <<session, sent, terminated, closed, stream, pos, fragmented, apiPc, buffer, calls,
                   log, promise, settles, failure, insights, closureProgress, benchVars, extractVars>>

\* ------------------------------------------------- the benchmark endpoint
\* data.progress of an envelope that has no progress field
Undefined == -1

\* The envelopes the benchmark endpoint can emit: progress updates (two of
\* them with a progress outside 0..100), the record whose status is
\* 'complete', and the record that reports an error.
BenchBodies ==
    [ p10      |-> [status |-> "Starting",   progress |-> 10],
      p30      |-> [status |-> "Analyzing",  progress |-> 30],
      p60      |-> [status |-> "Generating", progress |-> 60],
      p90      |-> [status |-> "Validating", progress |-> 90],
      over     |-> [status |-> "Validating", progress |-> 150],
      under    |-> [status |-> "Starting",   progress |-> -5],
      complete |-> [status |-> "complete",   progress |-> 100],
      error    |-> [status |-> "error",      progress |-> Undefined] ]

BenchSymbols == DOMAIN BenchBodies

\* the envelopes of an endpoint that keeps its progress within 0..100
InRangeSymbols ==
    {b \in BenchSymbols :
        b \in {"complete", "error"} \/ BenchBodies[b].progress \in 0..100}

BenchJSONValid(text) ==
    /\ Len(text) = 3
    /\ text[1] = "{"
    /\ text[3] = "}"
    /\ text[2] \in BenchSymbols

BenchRecord(body) == DataPrefix \o <<"{", body, "}">>

\* a well-formed stream reports progress values that never decrease
NonDecreasing(bodies) ==
    \A i, j \in 1..Len(bodies) :
        (i < j /\ {bodies[i], bodies[j]} \cap {"complete", "error"} = {})
            => BenchBodies[bodies[i]].progress <= BenchBodies[bodies[j]].progress

\* the endpoint reports completion at most once and an error at most once
\* (it may still write progress records after either)
ReportedOnce(bodies) ==
    \A i, j \in 1..Len(bodies) :
        (i < j /\ bodies[i] \in {"complete", "error"}) => bodies[j] # bodies[i]

\* ------------------------------------------ BenchmarkInterface's callbacks
\* The callbacks act on b = [calls, executing, progress, status, progressLog,
\* executionPhases, toasts, result, timers]; env = [execution].
InitialPhases == <<"active", "pending", "pending", "pending">>

\* UpdatePhases with a wrong index in the second band: newPhases[0] is
\* marked active where newPhases[2] is meant
UpdatePhases_WrongIndex(phases, progressValue) ==
    IF progressValue >= 20 /\ progressValue < 50
    THEN [phases EXCEPT ![1] = "complete", ![2] = "active"]
    ELSE IF progressValue >= 50 /\ progressValue < 80
    THEN [phases EXCEPT ![2] = "complete", ![1] = "active"]
    ELSE IF progressValue >= 80
    THEN [phases EXCEPT ![3] = "complete", ![4] = "active"]
    ELSE phases

\* the updater handed to setExecutionPhases by onProgress
UpdatePhases(phases, progressValue) ==
    IF progressValue >= 20 /\ progressValue < 50
    THEN [phases EXCEPT ![1] = "complete", ![2] = "active"]
    ELSE IF progressValue >= 50 /\ progressValue < 80
    THEN [phases EXCEPT ![2] = "complete", ![3] = "active"]
    ELSE IF progressValue >= 80
    THEN [phases EXCEPT ![3] = "complete", ![4] = "active"]
    ELSE phases

\* BOnProgress with setProgressLog([entry]) in place of
\* setProgressLog(prev => [...prev, entry])
BOnProgress_ReplacesLog(b, message, progressValue) ==
    [b EXCEPT !.calls = Append(@, [handler |-> "onProgress", progress |-> progressValue]),
              !.status = message,
              !.progress = progressValue,
              !.executionPhases = UpdatePhases(@, progressValue),
              !.progressLog = <<[message |-> message, progress |-> progressValue]>>]

BOnProgress(b, message, progressValue) ==
    [b EXCEPT !.calls = Append(@, [handler |-> "onProgress", progress |-> progressValue]),
              !.status = message,
              !.progress = progressValue,
              !.executionPhases = UpdatePhases(@, progressValue),
              !.progressLog = Append(@, [message |-> message, progress |-> progressValue])]

BOnComplete(b, env) ==
    [b EXCEPT !.calls = Append(@, [handler |-> "onComplete", progress |-> 100]),
              !.progress = 100,
              !.status = "Complete!",
              !.toasts = Append(@, "success"),
              !.result = env.execution,
              !.timers = @ + 1]

BOnError(b) ==
    [b EXCEPT !.calls = Append(@, [handler |-> "onError", progress |-> 0]),
              !.toasts = Append(@, "error"),
              !.status = "Failed",
              !.executing = FALSE]

\* the catch block of handleExecute
ExecuteCatch(b) ==
    [b EXCEPT !.toasts = Append(@, "error"),
              !.status = "Failed",
              !.executing = FALSE]

\* ------------------------------------------------- executeBenchmarkTask
\* one iteration of for (const line of lines)
BenchProcessLine(b, line, env) ==
    IF ~StartsWith(line, DataPrefix) THEN b
    ELSE LET text == Slice(line, 6)
         IN  IF ~BenchJSONValid(text) THEN b     \* catch (e): console.error
             ELSE LET data == BenchBodies[text[2]]
                  IN  IF data.status = "complete"
                      THEN BOnComplete(b, env)
                      ELSE BOnProgress(b, data.status, data.progress)

RECURSIVE BenchProcessLines(_, _, _)
BenchProcessLines(b, lines, env) ==
    IF lines = <<>> THEN b
    ELSE BenchProcessLines(BenchProcessLine(b, Head(lines), env), Tail(lines), env)

\* the body of while (true) for { done: false, value }
BenchOnChunk(b, value, env) ==
    BenchProcessLines(b, Split(value, <<LF>>), env)

\* the catch block of executeBenchmarkTask, and the catch block of
\* handleExecute that its throw reaches
BenchOnFailure(b) == ExecuteCatch(BOnError(b))

\* --------------------------------------- actions: the benchmark execution
CurrentBench ==
    [calls |-> benchCalls, executing |-> executing, progress |-> progress,
     status |-> status, progressLog |-> progressLog,
     executionPhases |-> executionPhases, toasts |-> benchToasts,
     result |-> benchmarkResult, timers |-> resetTimers]

BenchEnv == [execution |-> execution]

BenchCommit(b) ==
    /\ benchCalls' = b.calls
    /\ executing' = b.executing
    /\ progress' = b.progress
    /\ status' = b.status
    /\ progressLog' = b.progressLog
    /\ executionPhases' = b.executionPhases
    /\ benchToasts' = b.toasts
    /\ benchmarkResult' = b.result
    /\ resetTimers' = b.timers

\* handleExecute up to the await, with a task selected; the execute button
\* is rendered only while not executing.  Here the user starts an execution
\* only when the reader of the previous one has stopped (stream ended or
\* failed): one reader feeds the interface at a time.
Execute ==
    /\ ~executing
    /\ benchPc \notin {"fetching", "reading"}
    /\ execution < MaxExecutions
    /\ execution' = execution + 1
    /\ benchSent' = <<>>
    /\ benchClosed' = FALSE
    /\ benchStream' = <<>>
    /\ benchPos' = 0
    /\ benchPc' = "fetching"
    /\ benchCalls' = <<>>
    /\ executing' = TRUE
    /\ progress' = 0
    /\ status' = "Initializing task execution..."
    /\ progressLog' = <<>>
    /\ executionPhases' = InitialPhases
    /\ benchToasts' = <<>>
    /\ UNCHANGED <<benchmarkResult, resetTimers, orphans, streamVars, extractVars>>

\* the server writes one more record to the body, its progress value not
\* below the ones written before
BenchEmit(body) ==
    /\ benchPc = "reading"
    /\ ~benchClosed
    /\ Len(benchSent) < MaxBenchEvents
    /\ NonDecreasing(Append(benchSent, body))
    /\ ReportedOnce(Append(benchSent, body))
    /\ benchSent' = Append(benchSent, body)
    /\ benchStream' = benchStream \o BenchRecord(body) \o RecordDelimiter
    /\ UNCHANGED <<execution, benchClosed, benchPos, benchPc, benchCalls, executing,
                   progress, status, progressLog, executionPhases, benchToasts,
                   benchmarkResult, resetTimers, orphans, streamVars, extractVars>>

\* the server closes the body
BenchClose ==
    /\ benchPc = "reading"
    /\ ~benchClosed
    /\ benchClosed' = TRUE
    /\ UNCHANGED <<execution, benchSent, benchStream, benchPos, benchPc, benchCalls,
                   executing, progress, status, progressLog, executionPhases,
                   benchToasts, benchmarkResult, resetTimers, orphans, streamVars, extractVars>>

\* fetch rejects, or answers with a non-success status
BenchFetchFails ==
    /\ benchPc = "fetching"
    /\ \E b \in {BenchOnFailure(CurrentBench)} : BenchCommit(b)
    /\ benchPc' = "failed"
    /\ UNCHANGED <<execution, benchSent, benchClosed, benchStream, benchPos, orphans, streamVars, extractVars>>

BenchFetchOk ==
    /\ benchPc = "fetching"
    /\ benchPc' = "reading"
    /\ UNCHANGED <<execution, benchSent, benchClosed, benchStream, benchPos, benchCalls, executing,
                   progress, status, progressLog, executionPhases, benchToasts,
                   benchmarkResult, resetTimers, orphans, streamVars, extractVars>>

\* reader.read() delivers the next n bytes
BenchRead(n) ==
    /\ benchPc = "reading"
    /\ n \in 1..(Len(benchStream) - benchPos)
    /\ \E b \in {BenchOnChunk(CurrentBench,
                             SubSeq(benchStream, benchPos + 1, benchPos + n), BenchEnv)} :
           BenchCommit(b)
    /\ benchPos' = benchPos + n
    /\ UNCHANGED <<execution, benchSent, benchClosed, benchStream, benchPc, orphans, streamVars, extractVars>>

\* reader.read() answers { done: true }: break, and handleExecute returns
BenchStreamEnd ==
    /\ benchPc = "reading"
    /\ benchClosed
    /\ benchPos = Len(benchStream)
    /\ benchPc' = "ended"
    /\ UNCHANGED <<execution, benchSent, benchClosed, benchStream, benchPos, benchCalls, executing,
                   progress, status, progressLog, executionPhases, benchToasts,
                   benchmarkResult, resetTimers, orphans, streamVars, extractVars>>

\* reader.read() rejects
BenchReadFails ==
    /\ benchPc = "reading"
    /\ \E b \in {BenchOnFailure(CurrentBench)} : BenchCommit(b)
    /\ benchPc' = "failed"
    /\ UNCHANGED <<execution, benchSent, benchClosed, benchStream, benchPos, orphans, streamVars, extractVars>>

\* a timer set by onComplete fires, 2 seconds after the complete record
ResetTimerFires ==
    /\ resetTimers > 0
    /\ resetTimers' = resetTimers - 1
    /\ executing' = FALSE
    /\ progress' = 0
    /\ status' = ""
    /\ UNCHANGED <<execution, benchSent, benchClosed, benchStream, benchPos, benchPc, benchCalls,
                   progressLog, executionPhases, benchToasts, benchmarkResult,
                   orphans, streamVars, extractVars>>

\* The user leaves the Execute Task tab and comes back while an execution is
\* in flight: App unmounts BenchmarkInterface and mounts a new instance, whose
\* state starts from the useState initial values.  executeBenchmarkTask is
\* not told: the reader keeps reading with the callbacks of the old instance,
\* whose state setters (and pending timers) no longer have any effect.
Remount ==
    /\ benchPc \in {"fetching", "reading"}
    /\ orphans' = orphans \cup {execution}
    /\ benchPc' = "idle"
    /\ benchSent' = <<>>
    /\ benchClosed' = FALSE
    /\ benchStream' = <<>>
    /\ benchPos' = 0
    /\ benchCalls' = <<>>
    /\ executing' = FALSE
    /\ progress' = 0
    /\ status' = ""
    /\ progressLog' = <<>>
    /\ executionPhases' = <<"pending", "pending", "pending", "pending">>
    /\ resetTimers' = 0
    /\ UNCHANGED <<execution, benchToasts, benchmarkResult, streamVars, extractVars>>

\* the reader of an unmounted instance handles the complete record of its
\* stream, and then the end of the stream: onComplete of the old instance
\* notifies and hands the result to App (onResultReady)
OrphanComplete(e) ==
    /\ e \in orphans
    /\ orphans' = orphans \ {e}
    /\ benchToasts' = Append(benchToasts, "success")
    /\ benchmarkResult' = e
    /\ UNCHANGED <<execution, benchSent, benchClosed, benchStream, benchPos, benchPc,
                   benchCalls, executing, progress, status, progressLog,
                   executionPhases, resetTimers, streamVars, extractVars>>

\* the reader of an unmounted instance reaches the end of a stream that
\* carried no complete record
OrphanEnds(e) ==
    /\ e \in orphans
    /\ orphans' = orphans \ {e}
    /\ UNCHANGED <<execution, benchSent, benchClosed, benchStream, benchPos, benchPc,
                   benchCalls, executing, progress, status, progressLog,
                   executionPhases, benchToasts, benchmarkResult, resetTimers,
                   streamVars, extractVars>>

\* ------------------------------------------- ActionableInsights: the text
\* Text is a sequence of one-character strings; the en dash is written
\* "EN DASH".
DigitChars == <<"0", "1", "2", "3", "4", "5", "6", "7", "8", "9">>

UpperChars ==
    <<"A", "B", "C", "D", "E", "F", "G", "H", "I", "J", "K", "L", "M", "N", "O", "P", "Q", "R", "S", "T", "U", "V", "W", "X", "Y", "Z">>

LowerChars ==
    <<"a", "b", "c", "d", "e", "f", "g", "h", "i", "j", "k", "l", "m", "n", "o", "p", "q", "r", "s", "t", "u", "v", "w", "x", "y", "z">>

Digits == {DigitChars[i] : i \in 1..Len(DigitChars)}
Upper == {UpperChars[i] : i \in 1..Len(UpperChars)}
Lower == {LowerChars[i] : i \in 1..Len(LowerChars)}

\* \s, for text that holds no line break
Whitespace == {" ", "\t"}

\* the first index from i on whose character is not in cls (Len(s) + 1 when
\* there is none): the end of a greedy cls*
RECURSIVE SkipWhile(_, _, _)
SkipWhile(s, i, cls) ==
    IF i <= Len(s) /\ s[i] \in cls THEN SkipWhile(s, i + 1, cls) ELSE i

\* the first index from i on whose character is c (0 when there is none)
RECURSIVE IndexOf(_, _, _)
IndexOf(s, i, c) ==
    IF i > Len(s) THEN 0
    ELSE IF s[i] = c THEN i ELSE IndexOf(s, i + 1, c)

\* the last index up to i whose character is not in cls (0 when there is none)
RECURSIVE SkipBack(_, _, _)
SkipBack(s, i, cls) ==
    IF i >= 1 /\ s[i] \in cls THEN SkipBack(s, i - 1, cls) ELSE i

\* String.prototype.trim
Trim(s) ==
    LET a == SkipWhile(s, 1, Whitespace)
    IN  IF a > Len(s) THEN <<>> ELSE SubSeq(s, a, SkipBack(s, Len(s), Whitespace))

\* String.prototype.includes
Contains(s, w) ==
    \E i \in 1..(Len(s) - Len(w) + 1) : \A k \in 1..Len(w) : s[i + k - 1] = w[k]

\* s.replace(/[...]/g, '')
RemoveChars(s, cls) == SelectSeq(s, LAMBDA c : c \notin cls)

ToLower(c) ==
    IF c \in Upper THEN LowerChars[CHOOSE i \in 1..Len(UpperChars) : UpperChars[i] = c]
    ELSE c

\* the text a regular expression with the i flag is matched against
LowerCase(s) == [i \in 1..Len(s) |-> ToLower(s[i])]

\* Array.prototype.join
RECURSIVE Join(_, _)
Join(parts, sep) ==
    IF parts = <<>> THEN <<>>
    ELSE IF Len(parts) = 1 THEN parts[1]
    ELSE parts[1] \o sep \o Join(Tail(parts), sep)

\* ---------------------------------------------------------------- numbers
\* A number is [nan, val]: NaN, or the integer val.  The texts parsed here
\* hold no decimal point and no exponent.
NaN == [nan |-> TRUE, val |-> 0]

Number(n) == [nan |-> FALSE, val |-> n]

DigitValue(c) == (CHOOSE i \in 1..Len(DigitChars) : DigitChars[i] = c) - 1

RECURSIVE DigitsValue(_, _, _)
DigitsValue(s, i, acc) ==
    IF i > Len(s) THEN acc ELSE DigitsValue(s, i + 1, acc * 10 + DigitValue(s[i]))

\* parseFloat: leading white space, a sign, and the longest run of digits;
\* NaN when there is no digit
ParseFloat(s) ==
    LET i == SkipWhile(s, 1, Whitespace)
        signed == i <= Len(s) /\ s[i] \in {"-", "+"}
        j == IF signed THEN i + 1 ELSE i
        k == SkipWhile(s, j, Digits)
        magnitude == DigitsValue(SubSeq(s, j, k - 1), 1, 0)
    IN  IF k = j THEN NaN
        ELSE IF signed /\ s[i] = "-" THEN Number(0 - magnitude)
        ELSE Number(magnitude)

RECURSIVE DigitsOf(_)
DigitsOf(n) ==
    IF n < 10 THEN <<DigitChars[n + 1]>>
    ELSE Append(DigitsOf(n \div 10), DigitChars[(n % 10) + 1])

\* digits with a comma before every group of three
RECURSIVE Grouped(_)
Grouped(d) ==
    IF Len(d) <= 3 THEN d
    ELSE Grouped(SubSeq(d, 1, Len(d) - 3)) \o <<",">> \o SubSeq(d, Len(d) - 2, Len(d))

\* Number.prototype.toLocaleString, in the en-US locale
ToLocaleString(x) ==
    IF x.nan THEN <<"N", "a", "N">>
    ELSE IF x.val < 0 THEN <<"-">> \o Grouped(DigitsOf(0 - x.val))
    ELSE Grouped(DigitsOf(x.val))

\* ----------------------------------- ActionableInsights: the line patterns
Dashes == {"-", "EN DASH"}

Fail == [ok |-> FALSE]

\* k more cells (.+?)\| from index start on
RECURSIVE TableCells(_, _, _, _)
TableCells(t, start, k, cells) ==
    IF k = 0 THEN [ok |-> TRUE, cells |-> cells]
    ELSE LET close == IndexOf(t, start + 1, "|")
         IN  IF close = 0 THEN Fail
             ELSE TableCells(t, close + 1, k - 1, Append(cells, SubSeq(t, start, close - 1)))

\* trimmed.match(/^\|(.+?)\|(.+?)\|(.+?)\|(.+?)\|(.+?)\|/)
TableMatch(t) ==
    IF t # <<>> /\ t[1] = "|" THEN TableCells(t, 2, 5, <<>>) ELSE Fail

\* \s*[-–]\s*\$?([\d,]+)\s*(?:\((.+?)\))? matched at index q
ListTail(t, q) ==
    LET q1 == SkipWhile(t, q, Whitespace)
        q2 == SkipWhile(t, q1 + 1, Whitespace)
        q3 == IF q2 <= Len(t) /\ t[q2] = "$" THEN q2 + 1 ELSE q2
        q4 == SkipWhile(t, q3, Digits \cup {","})
        q5 == SkipWhile(t, q4, Whitespace)
        close == IF q5 <= Len(t) /\ t[q5] = "(" THEN IndexOf(t, q5 + 2, ")") ELSE 0
    IN  IF q1 > Len(t) \/ t[q1] \notin Dashes \/ q4 = q3 THEN Fail
        ELSE [ok |-> TRUE, value |-> SubSeq(t, q3, q4 - 1), hasStage |-> close # 0,
              stage |-> IF close # 0 THEN SubSeq(t, q5 + 1, close - 1) ELSE <<>>]

\* trimmed.match(/^(\d+)\.\s*(.+?)\s*[-–]\s*\$?([\d,]+)\s*(?:\((.+?)\))?/):
\* the white space after the dot is taken greedily (given back only when
\* nothing matches otherwise), the name is the shortest that lets the rest
\* match
ListMatch(t) ==
    LET d == SkipWhile(t, 1, Digits)
        Ends(a) == {e \in a..Len(t) : ListTail(t, e + 1).ok}
        starts == {a \in (d + 1)..SkipWhile(t, d + 1, Whitespace) : Ends(a) # {}}
    IN  IF d = 1 \/ d > Len(t) \/ t[d] # "." \/ starts = {} THEN Fail
        ELSE LET a == CHOOSE x \in starts : \A y \in starts : y <= x
                 e == CHOOSE x \in Ends(a) : \A y \in Ends(a) : x <= y
                 r == ListTail(t, e + 1)
             IN  [ok |-> TRUE, rank |-> SubSeq(t, 1, d - 1), name |-> SubSeq(t, a, e),
                  value |-> r.value, hasStage |-> r.hasStage, stage |-> r.stage]

\* trimmed.match(/^([A-Z][A-Za-z\s&]+?):\s*\$?([\d,]+)/)
SimpleMatch(t) ==
    LET c == SkipWhile(t, 2, Upper \cup Lower \cup Whitespace \cup {"&"})
        q2 == SkipWhile(t, c + 1, Whitespace)
        q3 == IF q2 <= Len(t) /\ t[q2] = "$" THEN q2 + 1 ELSE q2
        q4 == SkipWhile(t, q3, Digits \cup {","})
    IN  IF t = <<>> \/ t[1] \notin Upper \/ c < 3 \/ c > Len(t) THEN Fail
        ELSE IF t[c] # ":" \/ q4 = q3 THEN Fail
        ELSE [ok |-> TRUE, name |-> SubSeq(t, 1, c - 1), value |-> SubSeq(t, q3, q4 - 1)]

\* ------------------------------------------ ActionableInsights: extractRisk
StalledWords == {<<"s", "t", "a", "l", "l", "e", "d">>, <<"s", "t", "u", "c", "k">>, <<"n", "o", " ", "a", "c", "t", "i", "v", "i", "t", "y">>, <<"d", "e", "l", "a", "y", "e", "d">>, <<"s", "l", "o", "w">>}

CompetitionWords == {<<"c", "o", "m", "p", "e", "t", "i", "t", "o", "r">>, <<"c", "o", "m", "p", "e", "t", "i", "t", "i", "v", "e">>, <<"e", "v", "a", "l", "u", "a", "t", "i", "o", "n">>, <<"c", "o", "m", "p", "a", "r", "i", "n", "g">>}

BudgetWords == {<<"b", "u", "d", "g", "e", "t">>, <<"p", "r", "i", "c", "i", "n", "g">>, <<"c", "o", "s", "t">>, <<"e", "x", "p", "e", "n", "s", "i", "v", "e">>}

StakeholderWords == {<<"s", "t", "a", "k", "e", "h", "o", "l", "d", "e", "r">>, <<"d", "e", "c", "i", "s", "i", "o", "n", "-", "m", "a", "k", "e", "r">>, <<"d", "e", "c", "i", "s", "i", "o", "n", " ", "m", "a", "k", "e", "r">>, <<"a", "p", "p", "r", "o", "v", "a", "l">>, <<"c", "h", "a", "m", "p", "i", "o", "n">>}

\* RiskOfContext with the competition test first
RiskOfContext_CompetitionFirst(context) ==
    LET c == LowerCase(context)
    IN  IF \E w \in CompetitionWords : Contains(c, w) THEN "Active competition"
        ELSE IF \E w \in StalledWords : Contains(c, w) THEN "Deal momentum stalled"
        ELSE IF \E w \in BudgetWords : Contains(c, w) THEN "Budget concerns"
        ELSE IF \E w \in StakeholderWords : Contains(c, w) THEN "Missing key stakeholders"
        ELSE "none"

\* the chain of context.match(/.../i) tests; "none" when none matches
RiskOfContext(context) ==
    LET c == LowerCase(context)
    IN  IF \E w \in StalledWords : Contains(c, w) THEN "Deal momentum stalled"
        ELSE IF \E w \in CompetitionWords : Contains(c, w) THEN "Active competition"
        ELSE IF \E w \in BudgetWords : Contains(c, w) THEN "Budget concerns"
        ELSE IF \E w \in StakeholderWords : Contains(c, w) THEN "Missing key stakeholders"
        ELSE "none"

\* lines.slice(Math.max(0, i - 1), Math.min(lines.length, i + 3)).join(' '),
\* for the 1-based index i
RiskContext(lines, i) ==
    Join(SubSeq(lines, IF i > 1 THEN i - 1 ELSE 1,
                IF i + 2 < Len(lines) THEN i + 2 ELSE Len(lines)), <<" ">>)

\* the for loop of extractRisk from line i on; "null" for return null
RECURSIVE ExtractRiskFrom(_, _, _)
ExtractRiskFrom(lines, dealName, i) ==
    IF i > Len(lines) THEN "null"
    ELSE IF ~Contains(lines[i], dealName) THEN ExtractRiskFrom(lines, dealName, i + 1)
    ELSE LET risk == RiskOfContext(RiskContext(lines, i))
         IN  IF risk # "none" THEN risk ELSE ExtractRiskFrom(lines, dealName, i + 1)

ExtractRisk(text, dealName) == ExtractRiskFrom(Split(text, <<LF>>), dealName, 1)

\* ------------------------- ActionableInsights: extractWhy, extractNextSteps
\* the alternatives of the patterns of extractWhy (high[- ]value,
\* time[- ]sensitive and q[1-4] written out)
WhyWords ==
    [probability |->
        {<<"h", "i", "g", "h", " ", "p", "r", "o", "b", "a", "b", "i", "l", "i", "t", "y">>,
         <<"l", "i", "k", "e", "l", "y", " ", "t", "o", " ", "c", "l", "o", "s", "e">>,
         <<"s", "t", "r", "o", "n", "g", " ", "s", "i", "g", "n", "a", "l">>,
         <<"q", "u", "a", "l", "i", "f", "i", "e", "d">>,
         <<"e", "n", "g", "a", "g", "e", "d">>,
         <<"r", "e", "a", "d", "y", " ", "t", "o", " ", "b", "u", "y">>},
     strategic |->
        {<<"l", "a", "r", "g", "e", "s", "t">>,
         <<"b", "i", "g", "g", "e", "s", "t">>,
         <<"h", "i", "g", "h", "-", "v", "a", "l", "u", "e">>,
         <<"h", "i", "g", "h", " ", "v", "a", "l", "u", "e">>,
         <<"e", "n", "t", "e", "r", "p", "r", "i", "s", "e">>,
         <<"s", "t", "r", "a", "t", "e", "g", "i", "c">>},
     urgency |->
        {<<"u", "r", "g", "e", "n", "t">>,
         <<"i", "m", "m", "e", "d", "i", "a", "t", "e">>,
         <<"t", "i", "m", "e", "-", "s", "e", "n", "s", "i", "t", "i", "v", "e">>,
         <<"t", "i", "m", "e", " ", "s", "e", "n", "s", "i", "t", "i", "v", "e">>,
         <<"d", "e", "a", "d", "l", "i", "n", "e">>,
         <<"q", "1">>,
         <<"q", "2">>,
         <<"q", "3">>,
         <<"q", "4">>,
         <<"q", "u", "a", "r", "t", "e", "r">>},
     expansion |->
        {<<"e", "x", "i", "s", "t", "i", "n", "g">>,
         <<"c", "u", "r", "r", "e", "n", "t">>,
         <<"u", "p", "s", "e", "l", "l">>,
         <<"e", "x", "p", "a", "n", "s", "i", "o", "n">>,
         <<"r", "e", "n", "e", "w", "a", "l">>}]

\* the chain of context.match(/.../i) tests of extractWhy; "none" when none
\* matches
WhyOfContext(context) ==
    LET c == LowerCase(context)
        has(kind) == \E w \in WhyWords[kind] : Contains(c, w)
    IN  IF has("probability") THEN "High probability to close"
        ELSE IF has("strategic") THEN "High-value strategic deal"
        ELSE IF has("urgency") THEN "Time-sensitive opportunity"
        ELSE IF has("expansion") THEN "Expansion opportunity"
        ELSE "none"

\* the for loop of extractWhy from line i on; "null" for return null
RECURSIVE ExtractWhyFrom(_, _, _)
ExtractWhyFrom(lines, dealName, i) ==
    IF i > Len(lines) THEN "null"
    ELSE IF ~Contains(lines[i], dealName) THEN ExtractWhyFrom(lines, dealName, i + 1)
    ELSE LET why == WhyOfContext(RiskContext(lines, i))
         IN  IF why # "none" THEN why ELSE ExtractWhyFrom(lines, dealName, i + 1)

ExtractWhy(text, dealName) == ExtractWhyFrom(Split(text, <<LF>>), dealName, 1)

\* the alternatives of the patterns of extractNextSteps (follow[- ]up written
\* out)
NextStepsWords ==
    [followUp |->
        {<<"f", "o", "l", "l", "o", "w", "-", "u", "p">>,
         <<"f", "o", "l", "l", "o", "w", " ", "u", "p">>,
         <<"r", "e", "a", "c", "h", " ", "o", "u", "t">>,
         <<"c", "o", "n", "t", "a", "c", "t">>,
         <<"c", "a", "l", "l">>,
         <<"e", "m", "a", "i", "l">>,
         <<"s", "c", "h", "e", "d", "u", "l", "e">>},
     demo |->
        {<<"d", "e", "m", "o">>,
         <<"p", "r", "e", "s", "e", "n", "t", "a", "t", "i", "o", "n">>,
         <<"s", "h", "o", "w">>,
         <<"s", "h", "o", "w", "c", "a", "s", "e">>},
     proposal |->
        {<<"p", "r", "o", "p", "o", "s", "a", "l">>,
         <<"q", "u", "o", "t", "e">>,
         <<"p", "r", "i", "c", "i", "n", "g">>,
         <<"c", "o", "n", "t", "r", "a", "c", "t">>},
     commit |->
        {<<"c", "l", "o", "s", "e">>,
         <<"s", "i", "g", "n">>,
         <<"c", "o", "n", "t", "r", "a", "c", "t">>,
         <<"a", "g", "r", "e", "e", "m", "e", "n", "t">>,
         <<"c", "o", "m", "m", "i", "t">>}]

\* the chain of context.match(/.../i) tests of extractNextSteps; "none" when
\* none matches
NextStepsOfContext(context) ==
    LET c == LowerCase(context)
        has(kind) == \E w \in NextStepsWords[kind] : Contains(c, w)
    IN  IF has("followUp") THEN "Follow up with decision maker"
        ELSE IF has("demo") THEN "Schedule product demo"
        ELSE IF has("proposal") THEN "Send proposal/pricing"
        ELSE IF has("commit") THEN "Push for commitment"
        ELSE "none"

\* lines.slice(i, Math.min(lines.length, i + 5)).join(' '), for the 1-based
\* index i
NextStepsContext(lines, i) ==
    Join(SubSeq(lines, i, IF i + 4 < Len(lines) THEN i + 4 ELSE Len(lines)), <<" ">>)

\* the for loop of extractNextSteps from line i on, and the return after it
RECURSIVE ExtractNextStepsFrom(_, _, _)
ExtractNextStepsFrom(lines, dealName, i) ==
    IF i > Len(lines) THEN "Review and prioritize"
    ELSE IF ~Contains(lines[i], dealName) THEN ExtractNextStepsFrom(lines, dealName, i + 1)
    ELSE LET steps == NextStepsOfContext(NextStepsContext(lines, i))
         IN  IF steps # "none" THEN steps
             ELSE ExtractNextStepsFrom(lines, dealName, i + 1)

ExtractNextSteps(text, dealName) ==
    ExtractNextStepsFrom(Split(text, <<LF>>), dealName, 1)

\* ------------------------------------- ActionableInsights: parseOpportunities
\* An opportunity is [name, value, stage, why, risk, nextSteps]; the fields
\* rank, owner and context are left out.
TopN == 5

Unknown == <<"U", "n", "k", "n", "o", "w", "n">>

\* the stage of an opportunity pushed without one
NoStage == <<"undefined">>

\* if (tableMatch) { ... }
TableCandidate(text, trimmed) ==
    LET m == TableMatch(trimmed)
    IN  IF ~m.ok THEN <<>>
        ELSE LET name == m.cells[2]
                 dealName == Trim(name)
                 dealValue == RemoveChars(Trim(m.cells[3]), {"$", ","})
                 stage == Trim(m.cells[4])
             IN  IF \/ Contains(name, <<"D", "e", "a", "l">>)
                    \/ Contains(name, <<"N", "a", "m", "e">>)
                    \/ Contains(name, <<"-", "-", "-">>)
                    \/ dealName = <<>>
                    \/ dealValue = <<>>
                    \/ ParseFloat(dealValue).nan
                 THEN <<>>
                 ELSE << [name |-> dealName,
                          value |-> <<"$">> \o ToLocaleString(ParseFloat(dealValue)),
                          stage |-> IF stage # <<>> THEN stage ELSE Unknown,
                          why |-> ExtractWhy(text, dealName),
                          risk |-> ExtractRisk(text, dealName),
                          nextSteps |-> ExtractNextSteps(text, dealName)] >>

\* if (listMatch) { ... }
ListCandidate(text, trimmed) ==
    LET m == ListMatch(trimmed)
    IN  IF ~m.ok THEN <<>>
        ELSE << [name |-> Trim(m.name),
                 value |-> <<"$">> \o ToLocaleString(ParseFloat(RemoveChars(m.value, {","}))),
                 stage |-> IF m.hasStage THEN m.stage ELSE Unknown,
                 why |-> ExtractWhy(text, m.name),
                 risk |-> ExtractRisk(text, m.name),
                 nextSteps |-> ExtractNextSteps(text, m.name)] >>

\* if (simpleMatch && !trimmed.includes('|')) { ... }
SimpleCandidate(text, trimmed) ==
    LET m == SimpleMatch(trimmed)
    IN  IF ~m.ok \/ Contains(trimmed, <<"|">>) THEN <<>>
        ELSE IF \/ Contains(m.name, <<"T", "o", "t", "a", "l">>)
                \/ Contains(m.name, <<"A", "v", "e", "r", "a", "g", "e">>)
        THEN <<>>
        ELSE << [name |-> Trim(m.name),
                 value |-> <<"$">> \o ToLocaleString(ParseFloat(RemoveChars(m.value, {","}))),
                 stage |-> NoStage,
                 why |-> ExtractWhy(text, m.name),
                 risk |-> ExtractRisk(text, m.name),
                 nextSteps |-> ExtractNextSteps(text, m.name)] >>

\* LineCandidates with the colon branch taking a numbered row as well
LineCandidates_ListFallsThrough(text, line) ==
    LET trimmed == Trim(line)
        listed == ListCandidate(text, trimmed)
    IN  TableCandidate(text, trimmed) \o listed
            \o (IF listed # <<>> THEN << [listed[1] EXCEPT !.stage = NoStage] >>
                ELSE SimpleCandidate(text, trimmed))

\* the body of lines.forEach: what one line pushes
LineCandidates(text, line) ==
    LET trimmed == Trim(line)
    IN  TableCandidate(text, trimmed) \o ListCandidate(text, trimmed)
            \o SimpleCandidate(text, trimmed)

RECURSIVE PushFrom(_, _, _)
PushFrom(text, lines, i) ==
    IF i > Len(lines) THEN <<>>
    ELSE LineCandidates(text, lines[i]) \o PushFrom(text, lines, i + 1)

\* const opportunities after the forEach loops, for one insight
Candidates(text) == PushFrom(text, Split(text, <<LF>>), 1)

\* the reducer with the later opportunity replacing the earlier one
DedupStep_KeepsLast(acc, opp) ==
    IF \E k \in 1..Len(acc) : acc[k].name = opp.name
    THEN [k \in 1..Len(acc) |-> IF acc[k].name = opp.name THEN opp ELSE acc[k]]
    ELSE Append(acc, opp)

\* the reducer: (acc, opp) => { if (!acc.find(...)) acc.push(opp); return acc }
DedupStep(acc, opp) ==
    IF \E k \in 1..Len(acc) : acc[k].name = opp.name THEN acc ELSE Append(acc, opp)

RECURSIVE Reduce(_, _, _)
Reduce(opps, i, acc) ==
    IF i > Len(opps) THEN acc ELSE Reduce(opps, i + 1, DedupStep(acc, opps[i]))

\* const unique = opportunities.reduce(..., [])
Unique(opps) == Reduce(opps, 1, <<>>)

\* parseFloat(a.value.replace(/[\$,]/g, ''))
SortKey(o) == ParseFloat(RemoveChars(o.value, {"$", ","}))

\* the sign of the comparator (a, b) => bVal - aVal; a NaN result counts as 0
Compare(a, b) ==
    LET aVal == SortKey(a)
        bVal == SortKey(b)
    IN  IF aVal.nan \/ bVal.nan THEN 0
        ELSE IF bVal.val < aVal.val THEN 0 - 1
        ELSE IF bVal.val > aVal.val THEN 1
        ELSE 0

\* whether the comparator orders the elements of u consistently
ConsistentComparator(u) ==
    \A i, j, k \in 1..Len(u) :
        /\ (Compare(u[i], u[j]) = 0 /\ Compare(u[j], u[k]) = 0) => Compare(u[i], u[k]) = 0
        /\ (Compare(u[i], u[j]) < 0 /\ Compare(u[j], u[k]) < 0) => Compare(u[i], u[k]) < 0
        /\ (Compare(u[i], u[j]) > 0 /\ Compare(u[j], u[k]) > 0) => Compare(u[i], u[k]) > 0

\* x put behind the elements that do not sort after it
RECURSIVE InsertSorted(_, _)
InsertSorted(sorted, x) ==
    IF sorted = <<>> THEN <<x>>
    ELSE IF Compare(Head(sorted), x) <= 0
    THEN <<Head(sorted)>> \o InsertSorted(Tail(sorted), x)
    ELSE <<x>> \o sorted

RECURSIVE StableSort(_, _, _)
StableSort(u, i, acc) ==
    IF i > Len(u) THEN acc ELSE StableSort(u, i + 1, InsertSorted(acc, u[i]))

\* Array.prototype.sort: the stable order when the comparator is consistent,
\* an order the engine chooses when it is not
SortOutcomes(u) ==
    IF ConsistentComparator(u) THEN {StableSort(u, 1, <<>>)}
    ELSE {[i \in 1..Len(u) |-> u[p[i]]] : p \in Permutations(1..Len(u))}

\* .slice(0, n)
Take(s, n) == SubSeq(s, 1, IF n < Len(s) THEN n ELSE Len(s))

\* ---------------------------------------------------- the contents parsed
\* a pipeline report: a table, numbered rows and colon rows
PipelineReport ==
    << <<"|", " ", "R", "a", "n", "k", " ", "|", " ", "D", "e", "a", "l", " ", "N", "a", "m", "e", " ", "|", " ", "V", "a", "l", "u", "e", " ", "|", " ", "S", "t", "a", "g", "e", " ", "|", " ", "O", "w", "n", "e", "r", " ", "|">>,   \* | Rank | Deal Name | Value | Stage | Owner |
       <<"|", " ", "1", " ", "|", " ", "A", "c", "m", "e", " ", "C", "o", "r", "p", " ", "|", " ", "$", "1", "2", "5", ",", "0", "0", "0", " ", "|", " ", "N", "e", "g", "o", "t", "i", "a", "t", "i", "o", "n", " ", "|", " ", "A", "n", "n", " ", "|">>,   \* | 1 | Acme Corp | $125,000 | Negotiation | Ann |
       <<"1", ".", " ", "G", "l", "o", "b", "e", "x", " ", "-", " ", "$", "9", "0", ",", "0", "0", "0", " ", "(", "P", "r", "o", "p", "o", "s", "a", "l", ")">>,   \* 1. Globex - $90,000 (Proposal)
       <<"I", "n", "i", "t", "e", "c", "h", ":", " ", "$", "4", "0", ",", "0", "0", "0">>,   \* Initech: $40,000
       <<"2", ".", " ", "H", "o", "o", "l", "i", " ", "-", " ", "$", "2", "5", "0", ",", "0", "0", "0">>,   \* 2. Hooli - $250,000
       <<"3", ".", " ", "U", "m", "b", "r", "e", "l", "l", "a", " ", "EN DASH", " ", "$", "7", ",", "5", "0", "0", " ", "(", "D", "e", "m", "o", ")">>,   \* 3. Umbrella – $7,500 (Demo)
       <<"S", "t", "a", "r", "k", " ", "I", "n", "d", "u", "s", "t", "r", "i", "e", "s", ":", " ", "$", "6", "0", ",", "0", "0", "0">>,   \* Stark Industries: $60,000
       <<"4", ".", " ", "A", "c", "m", "e", " ", "C", "o", "r", "p", " ", "-", " ", "$", "3", "0", "0", ",", "0", "0", "0", " ", "(", "C", "l", "o", "s", "e", "d", ")">>,   \* 4. Acme Corp - $300,000 (Closed)
       <<"5", ".", " ", "W", "a", "y", "n", "e", " ", "-", " ", "$", "1", "5", ",", "0", "0", "0", " ", "(", "D", "i", "s", "c", "o", "v", "e", "r", "y", ")">> >>   \* 5. Wayne - $15,000 (Discovery)

\* notes on deals: mentions, unparsable and negative values
DealNotes ==
    << <<"T", "o", "p", " ", "d", "e", "a", "l", "s", " ", "t", "h", "i", "s", " ", "w", "e", "e", "k">>,   \* Top deals this week
       <<"A", "c", "m", "e", " ", "C", "o", "r", "p", " ", "i", "s", " ", "c", "o", "m", "p", "a", "r", "i", "n", "g", " ", "v", "e", "n", "d", "o", "r", "s">>,   \* Acme Corp is comparing vendors
       <<"1", ".", " ", "A", "c", "m", "e", " ", "C", "o", "r", "p", " ", "-", " ", "$", "1", "2", "5", ",", "0", "0", "0", " ", "(", "N", "e", "g", "o", "t", "i", "a", "t", "i", "o", "n", ")">>,   \* 1. Acme Corp - $125,000 (Negotiation)
       <<>>,   \* (an empty line)
       <<"A", "c", "m", "e", " ", "C", "o", "r", "p", " ", "i", "s", " ", "s", "t", "a", "l", "l", "e", "d", " ", "d", "u", "e", " ", "t", "o", " ", "c", "o", "m", "p", "e", "t", "i", "t", "o", "r", " ", "e", "v", "a", "l", "u", "a", "t", "i", "o", "n">>,   \* Acme Corp is stalled due to competitor evaluation
       <<"2", ".", " ", "G", "l", "o", "b", "e", "x", " ", "-", " ", "$", ",", " ", "(", "R", "e", "v", "i", "e", "w", ")">>,   \* 2. Globex - $, (Review)
       <<"|", " ", "3", " ", "|", " ", "I", "n", "i", "t", "e", "c", "h", " ", "|", " ", "b", "a", "d", "-", "v", "a", "l", "u", "e", " ", "|", " ", "D", "e", "m", "o", " ", "|", " ", "B", "o", "b", " ", "|">>,   \* | 3 | Initech | bad-value | Demo | Bob |
       <<"H", "o", "o", "l", "i", ":", " ", "$", "9", ",", "0", "0", "0">>,   \* Hooli: $9,000
       <<"|", " ", "4", " ", "|", " ", "U", "m", "b", "r", "e", "l", "l", "a", " ", "|", " ", "-", "5", "0", "0", " ", "|", " ", "D", "e", "m", "o", " ", "|", " ", "C", "y", " ", "|">> >>   \* | 4 | Umbrella | -500 | Demo | Cy |

RECURSIVE Reversed(_)
Reversed(s) == IF s = <<>> THEN <<>> ELSE Append(Reversed(Tail(s)), Head(s))

Documents == {PipelineReport, Reversed(PipelineReport), DealNotes}

\* the lines of doc whose index is in keep, in their order
RECURSIVE PickFrom(_, _, _)
PickFrom(doc, keep, i) ==
    IF i > Len(doc) THEN <<>>
    ELSE (IF i \in keep THEN <<doc[i]>> ELSE <<>>) \o PickFrom(doc, keep, i + 1)

\* the contents: at most MaxLines lines of a document, joined by line feeds
Contents ==
    {Join(PickFrom(doc, keep, 1), <<LF>>) :
        doc \in Documents,
        keep \in {k \in SUBSET (1..Len(PipelineReport)) : Cardinality(k) <= MaxLines}}

\* ActionableInsights renders: parseOpportunities runs on the insight
ParseOpportunities ==
    /\ ~parsed
    /\ \E c \in {Candidates(content)} :
         \E u \in {Unique(c)} :
           \E r \in SortOutcomes(u) :
               /\ opportunities' = c
               /\ unique' = u
               /\ returned' = Take(r, TopN)
    /\ parsed' = TRUE
    /\ UNCHANGED <<content, insightVars, streamVars, benchVars>>

\* ------------------------------------ ActionableInsights: categorizeInsights
\* An insight is [title, content]: content is what
\* insight.full_content || insight.description || '' evaluates to.
NoCategories == [opportunities |-> <<>>, problems |-> <<>>, recommendations |-> <<>>]

OpportunityWords ==
    {<<"o", "p", "p", "o", "r", "t", "u", "n", "i", "t">>,
     <<"t", "o", "p">>,
     <<"d", "e", "a", "l">>,
     <<"k", "e", "y", " ", "d", "e", "a", "l">>}

ProblemWords ==
    {<<"b", "o", "t", "t", "l", "e", "n", "e", "c", "k">>,
     <<"i", "s", "s", "u", "e">>,
     <<"p", "r", "o", "b", "l", "e", "m">>,
     <<"r", "i", "s", "k">>,
     <<"c", "r", "i", "t", "i", "c", "a", "l">>}

\* the if / else if / else of the forEach, with the problem test first
CategoryOf_ProblemFirst(insight) ==
    LET title == LowerCase(insight.title)
    IN  IF \E w \in ProblemWords : Contains(title, w) THEN "problems"
        ELSE IF \E w \in OpportunityWords : Contains(title, w) THEN "opportunities"
        ELSE "recommendations"

\* the if / else if / else of the forEach: the array the insight is pushed to
CategoryOf(insight) ==
    LET title == LowerCase(insight.title)
    IN  IF \E w \in OpportunityWords : Contains(title, w) THEN "opportunities"
        ELSE IF \E w \in ProblemWords : Contains(title, w) THEN "problems"
        ELSE "recommendations"

\* insights.forEach(...) of categorizeInsights
CategorizeInsights(list) ==
    [c \in DOMAIN NoCategories |-> SelectSeq(list, LAMBDA insight : CategoryOf(insight) = c)]

\* ---------------------------------------- ActionableInsights: parseProblems
\* A problem is [title, type, severity, fullContent]; summary, affectedDeals,
\* suggestion and impact are left out.
\* the alternatives of the patterns of detectProblemType
ProblemTypeWords ==
    [bottleneck |->
        {<<"b", "o", "t", "t", "l", "e", "n", "e", "c", "k">>,
         <<"s", "t", "u", "c", "k">>,
         <<"s", "t", "a", "l", "l", "e", "d">>,
         <<"b", "l", "o", "c", "k", "e", "d">>},
     conversion |->
        {<<"c", "o", "n", "v", "e", "r", "s", "i", "o", "n">>,
         <<"w", "i", "n", " ", "r", "a", "t", "e">>,
         <<"l", "o", "s", "s">>,
         <<"l", "o", "s", "t">>},
     velocity |->
        {<<"p", "i", "p", "e", "l", "i", "n", "e">>,
         <<"v", "e", "l", "o", "c", "i", "t", "y">>,
         <<"c", "y", "c", "l", "e">>,
         <<"t", "i", "m", "e">>},
     forecast |->
        {<<"f", "o", "r", "e", "c", "a", "s", "t">>,
         <<"q", "u", "o", "t", "a">>,
         <<"t", "a", "r", "g", "e", "t">>},
     churn |->
        {<<"c", "h", "u", "r", "n">>,
         <<"r", "e", "t", "e", "n", "t", "i", "o", "n">>,
         <<"r", "e", "n", "e", "w", "a", "l">>}]

DetectProblemType(title, body) ==
    LET text == LowerCase(title \o <<" ">> \o body)
        has(type) == \E w \in ProblemTypeWords[type] : Contains(text, w)
    IN  IF has("bottleneck") THEN "bottleneck"
        ELSE IF has("conversion") THEN "conversion"
        ELSE IF has("velocity") THEN "velocity"
        ELSE IF has("forecast") THEN "forecast"
        ELSE IF has("churn") THEN "churn"
        ELSE "general"

\* the alternatives of the patterns of detectSeverity
SeverityWords ==
    [critical |->
        {<<"c", "r", "i", "t", "i", "c", "a", "l">>,
         <<"u", "r", "g", "e", "n", "t">>,
         <<"i", "m", "m", "e", "d", "i", "a", "t", "e">>,
         <<"s", "e", "v", "e", "r", "e">>},
     high |->
        {<<"h", "i", "g", "h">>,
         <<"s", "i", "g", "n", "i", "f", "i", "c", "a", "n", "t">>,
         <<"m", "a", "j", "o", "r">>,
         <<"i", "m", "p", "o", "r", "t", "a", "n", "t">>},
     medium |->
        {<<"m", "o", "d", "e", "r", "a", "t", "e">>,
         <<"m", "e", "d", "i", "u", "m">>}]

DetectSeverity(body) ==
    LET text == LowerCase(body)
        has(severity) == \E w \in SeverityWords[severity] : Contains(text, w)
    IN  IF has("critical") THEN "critical"
        ELSE IF has("high") THEN "high"
        ELSE IF has("medium") THEN "medium"
        ELSE "low"

SeverityOrder == [critical |-> 0, high |-> 1, medium |-> 2, low |-> 3]

\* what problemInsights.forEach pushes for one insight
ProblemOf(insight) ==
    [title |-> Trim(RemoveChars(insight.title, {"#", "*"})),
     type |-> DetectProblemType(insight.title, insight.content),
     severity |-> DetectSeverity(insight.content),
     fullContent |-> insight.content]

RECURSIVE InsertBySeverity(_, _)
InsertBySeverity(sorted, x) ==
    IF sorted = <<>> THEN <<x>>
    ELSE IF SeverityOrder[Head(sorted).severity] > SeverityOrder[x.severity]
         THEN <<x>> \o sorted
         ELSE <<Head(sorted)>> \o InsertBySeverity(Tail(sorted), x)

RECURSIVE SortBySeverity(_, _, _)
\* problems.sort by severityOrder (the sort is stable)
SortBySeverity(list, i, acc) ==
    IF i > Len(list) THEN acc ELSE SortBySeverity(list, i + 1, InsertBySeverity(acc, list[i]))

ParseProblems(problemInsights) ==
    SortBySeverity([i \in 1..Len(problemInsights) |-> ProblemOf(problemInsights[i])], 1, <<>>)

\* ------------------------------------------- ActionableInsights: the render
RECURSIVE AllCandidates(_, _)
\* const opportunities of parseOpportunities after opportunityInsights.forEach
AllCandidates(opportunityInsights, i) ==
    IF i > Len(opportunityInsights) THEN <<>>
    ELSE Candidates(opportunityInsights[i].content)
             \o AllCandidates(opportunityInsights, i + 1)

FallbackCount == 3

\* {opportunities.length === 0 && problems.length === 0 &&
\*  categories.recommendations.length === 0 && insights && insights.length > 0}
FallbackShown ==
    /\ cards = <<>>
    /\ problems = <<>>
    /\ categories.recommendations = <<>>
    /\ Len(analysis) > 0

\* the insights the analysis endpoint can answer with
InsightPool ==
    {[title |-> <<"T", "o", "p", " ", "O", "p", "p", "o", "r", "t", "u", "n", "i", "t", "i", "e", "s">>,
      content |-> <<"A", "c", "m", "e", " ", "C", "o", "r", "p", ":", " ", "$", "4", "0", ",", "0", "0", "0", LF, "G", "l", "o", "b", "e", "x", ":", " ", "$", "9", "0", ",", "0", "0", "0">>],
     [title |-> <<"K", "e", "y", " ", "D", "e", "a", "l", " ", "R", "i", "s", "k", "s">>,
      content |-> <<"N", "o", " ", "o", "p", "e", "n", " ", "d", "e", "a", "l", "s", " ", "f", "o", "u", "n", "d">>],
     [title |-> <<"C", "r", "i", "t", "i", "c", "a", "l", " ", "B", "o", "t", "t", "l", "e", "n", "e", "c", "k">>,
      content |-> <<"U", "r", "g", "e", "n", "t", ":", " ", "a", "p", "p", "r", "o", "v", "a", "l", "s", " ", "a", "r", "e", " ", "s", "t", "u", "c", "k">>],
     [title |-> <<"P", "i", "p", "e", "l", "i", "n", "e", " ", "I", "s", "s", "u", "e", "s">>,
      content |-> <<"C", "y", "c", "l", "e", " ", "t", "i", "m", "e", " ", "i", "s", " ", "m", "o", "d", "e", "r", "a", "t", "e">>],
     [title |-> <<"E", "x", "e", "c", "u", "t", "i", "v", "e", " ", "S", "u", "m", "m", "a", "r", "y">>,
      content |-> <<"R", "e", "v", "e", "n", "u", "e", " ", "g", "r", "e", "w", " ", "t", "h", "i", "s", " ", "q", "u", "a", "r", "t", "e", "r">>],
     [title |-> <<"D", "a", "t", "a", " ", "P", "r", "o", "b", "l", "e", "m", "s">>,
      content |-> <<>>]}

RECURSIVE SeqsUpTo(_, _)
SeqsUpTo(S, n) ==
    IF n = 0 THEN {<<>>}
    ELSE LET shorter == SeqsUpTo(S, n - 1)
         IN  shorter \cup {Append(q, x) : q \in {r \in shorter : Len(r) = n - 1}, x \in S}

Analyses == SeqsUpTo(InsightPool, MaxInsights) \ {<<>>}

\* InsightsDashboard renders <ActionableInsights insights={insights} />, or
\* React renders it again after a state change: the body of the component
\* runs, and with it every const of lines 323-325
Render ==
    /\ renderPending
    /\ \E c \in {CategorizeInsights(analysis)} :
         \E pushed \in {AllCandidates(c.opportunities, 1)} :
           \E u \in {Unique(pushed)} :
             \E r \in SortOutcomes(u) :
               /\ categories' = c
               /\ cards' = Take(r, TopN)
               /\ problems' = ParseProblems(c.problems)
    /\ extractions' = extractions + 1
    /\ renderPending' = FALSE
    /\ UNCHANGED <<analysis, expandedSections, expandedOpportunities>>
    /\ UNCHANGED <<content, parsed, opportunities, unique, returned, streamVars, benchVars>>

\* toggleSection('recommendations'): setExpandedSections schedules a render
ToggleSection ==
    /\ ~renderPending
    /\ extractions \in 1..(MaxRenders - 1)
    /\ categories.recommendations # <<>>
    /\ expandedSections' = ~expandedSections
    /\ renderPending' = TRUE
    /\ UNCHANGED <<analysis, categories, cards, problems, expandedOpportunities, extractions>>
    /\ UNCHANGED <<content, parsed, opportunities, unique, returned, streamVars, benchVars>>

\* toggleOpportunity(index): setExpandedOpportunities schedules a render
ToggleOpportunity(index) ==
    /\ ~renderPending
    /\ extractions \in 1..(MaxRenders - 1)
    /\ index \in 1..Len(cards)
    /\ expandedOpportunities' =
           IF index \in expandedOpportunities THEN expandedOpportunities \ {index}
           ELSE expandedOpportunities \cup {index}
    /\ renderPending' = TRUE
    /\ UNCHANGED <<analysis, categories, cards, problems, expandedSections, extractions>>
    /\ UNCHANGED <<content, parsed, opportunities, unique, returned, streamVars, benchVars>>

\* ---------------------------------------------------------- specifications
StreamInit ==
    /\ session = 0
    /\ sent = <<>>
    /\ terminated = TRUE
    /\ closed = FALSE
    /\ stream = <<>>
    /\ pos = 0
    /\ fragmented = FALSE
    /\ apiPc = "idle"
    /\ buffer = <<>>
    /\ calls = <<>>
    /\ log = <<>>
    /\ promise = "none"
    /\ settles = 0
    /\ failure = "none"
    /\ isLoading = FALSE
    /\ insights = 0
    /\ streamingStatus = ""
    /\ streamingProgress = 0
    /\ closureProgress = 0
    /\ toasts = <<>>
    /\ submitPc = "idle"

BenchInit ==
    /\ execution = 0
    /\ benchSent = <<>>
    /\ benchClosed = FALSE
    /\ benchStream = <<>>
    /\ benchPos = 0
    /\ benchPc = "idle"
    /\ benchCalls = <<>>
    /\ executing = FALSE
    /\ progress = 0
    /\ status = ""
    /\ progressLog = <<>>
    /\ executionPhases = <<"pending", "pending", "pending", "pending">>
    /\ benchToasts = <<>>
    /\ benchmarkResult = 0
    /\ resetTimers = 0
    /\ orphans = {}

\* ActionableInsights is not mounted
InsightIdle ==
    /\ analysis = <<>>
    /\ categories = NoCategories
    /\ cards = <<>>
    /\ problems = <<>>
    /\ expandedSections = FALSE
    /\ expandedOpportunities = {}
    /\ extractions = 0
    /\ renderPending = FALSE

\* no insight has been rendered
ExtractIdle ==
    /\ content = <<>>
    /\ parsed = FALSE
    /\ opportunities = <<>>
    /\ unique = <<>>
    /\ returned = <<>>
    /\ InsightIdle

Init == StreamInit /\ BenchInit /\ ExtractIdle

StreamNext ==
    \/ Submit
    \/ \E rec \in RecordTexts, delimited \in BOOLEAN : Emit(rec, delimited)
    \/ Close
    \/ \E kind \in {"fetch", "http"} : FetchFails(kind)
    \/ FetchOk
    \/ \E n \in 1..Len(stream) : Read(n)
    \/ StreamEnd
    \/ ReadFails
    \/ AwaitResumes

\* the analysis session of QueryInterface
StreamSpec == Init /\ [][StreamNext]_vars

\* the same, with the scheduling of the event loop: a settled fetch, a
\* settled read and a settled promise have their continuation run
FairStreamSpec ==
    /\ StreamSpec
    /\ WF_vars(FetchOk)
    /\ WF_vars(\E n \in 1..Len(stream) : Read(n))
    /\ WF_vars(StreamEnd)
    /\ WF_vars(AwaitResumes)

BenchNext ==
    \/ Execute
    \/ \E body \in InRangeSymbols : BenchEmit(body)
    \/ BenchClose
    \/ BenchFetchFails
    \/ BenchFetchOk
    \/ \E n \in 1..Len(benchStream) : BenchRead(n)
    \/ BenchStreamEnd
    \/ BenchReadFails
    \/ ResetTimerFires

\* the benchmark execution of BenchmarkInterface, mounted throughout
BenchSpec == Init /\ [][BenchNext]_vars

\* The Execute Task tab left and entered again while executions run, with
\* an endpoint that writes 'Analyzing' and 'complete' records, reads that
\* deliver all the bytes written so far, and a transport that does not fail.
MountNext ==
    \/ Execute
    \/ \E body \in {"p30", "complete"} : BenchEmit(body)
    \/ BenchClose
    \/ BenchFetchOk
    \/ \E n \in {Len(benchStream) - benchPos} : BenchRead(n)
    \/ BenchStreamEnd
    \/ ResetTimerFires
    \/ Remount
    \/ \E e \in orphans : OrphanComplete(e)
    \/ \E e \in orphans : OrphanEnds(e)

MountSpec == Init /\ [][MountNext]_vars

\* An endpoint that also reports progress below 0 and above 100, with reads
\* that deliver all the bytes written so far and a transport that does not
\* fail.
RangeNext ==
    \/ Execute
    \/ \E body \in {"under", "p90", "over", "complete"} : BenchEmit(body)
    \/ BenchClose
    \/ BenchFetchOk
    \/ \E n \in {Len(benchStream) - benchPos} : BenchRead(n)
    \/ BenchStreamEnd
    \/ ResetTimerFires

RangeSpec == Init /\ [][RangeNext]_vars

\* an opportunity insight with one of the contents is about to be rendered
ExtractInit ==
    /\ StreamInit
    /\ BenchInit
    /\ content \in Contents
    /\ parsed = FALSE
    /\ opportunities = <<>>
    /\ unique = <<>>
    /\ returned = <<>>
    /\ InsightIdle

ExtractNext == ParseOpportunities

\* parseOpportunities applied to each of the contents
ExtractSpec == ExtractInit /\ [][ExtractNext]_vars

\* an analysis has completed and its insights are about to be rendered
InsightInit ==
    /\ StreamInit
    /\ BenchInit
    /\ content = <<>>
    /\ parsed = FALSE
    /\ opportunities = <<>>
    /\ unique = <<>>
    /\ returned = <<>>
    /\ analysis \in Analyses
    /\ categories = NoCategories
    /\ cards = <<>>
    /\ problems = <<>>
    /\ expandedSections = FALSE
    /\ expandedOpportunities = {}
    /\ extractions = 0
    /\ renderPending = TRUE

InsightNext ==
    \/ Render
    \/ ToggleSection
    \/ \E index \in 1..Len(cards) : ToggleOpportunity(index)

\* ActionableInsights rendered for each of the analyses
InsightSpec == InsightInit /\ [][InsightNext]_vars

\* ------------------------------------------------------------------ claims
\* the types the read loop has a handler for, and the handler of each
HandlerOf ==
    [status |-> "onStatus", partial |-> "onPartial", tool |-> "onTool",
     complete |-> "onComplete", error |-> "onError"]

HandledTypes == DOMAIN HandlerOf

TerminalHandlers == {"onComplete", "onError"}

IsWellFormed(rec) ==
    \E b \in BodySymbols : rec = WellFormedRecord(b) /\ AnalysisBodies[b].type \in HandledTypes

IsTerminal(rec) ==
    \E b \in BodySymbols :
        rec = WellFormedRecord(b) /\ AnalysisBodies[b].type \in {"complete", "error"}

\* the records the server has written together with their blank line
DelimitedRecords == IF terminated THEN sent ELSE Front(sent)

\* the handler invocations made for records (not for a transport failure)
RecordCalls == SelectSeq(calls, LAMBDA c : c.body # "transport")

\* the handler invocations of one read that delivers all of bytes at once
SingleReadCalls(bytes) ==
    OnChunk(<<>>, bytes,
            [calls |-> <<>>, log |-> <<>>, promise |-> "pending", settles |-> 0,
             returned |-> FALSE, ui |-> CurrentUi], CurrentEnv).st.calls

\* C1: however the bytes delivered so far were split into reads, the handler
\* invocations made for them (handlers, payloads, order) are those of a
\* single read that delivers the same bytes at once.
C1_FragmentationInvariant ==
    apiPc \in {"reading", "returned", "ended"}
        => calls = SingleReadCalls(SubSeq(stream, 1, pos))

\* C1 witness: two well-formed records were dispatched from a body that some
\* read had cut inside a record.
C1_Witness ==
    /\ apiPc = "returned"
    /\ fragmented
    /\ Len(sent) = 2
    /\ \A i \in 1..2 : IsWellFormed(sent[i])
    /\ Len(calls) = 2

RECURSIVE HandlersFor(_)
\* one invocation, of the handler matching its type, per decoded record of
\* a handled type, in the order of decoding
HandlersFor(bodies) ==
    IF bodies = <<>> THEN <<>>
    ELSE LET b == Head(bodies)
             type == AnalysisBodies[b].type
         IN  (IF type \in HandledTypes
              THEN << [handler |-> HandlerOf[type], body |-> b] >>
              ELSE <<>>) \o HandlersFor(Tail(bodies))

\* C5: the handler invocations made for records are exactly one invocation
\* per decoded record of type status, partial, tool, complete or error, of
\* the handler matching the type, in the order the records were decoded.
C5_OneHandlerPerRecord == RecordCalls = HandlersFor(log)

\* C5 witness: two records of different handled types have been decoded and
\* each has been dispatched once.
C5_Witness ==
    /\ Len(log) = 2
    /\ log[1] # log[2]
    /\ Len(calls) = 2

\* C6: resolve / reject is called at most once in a session, and at most one
\* invocation of onComplete or onError is made.
C6_SettledOnce ==
    /\ settles <= 1
    /\ Cardinality({i \in 1..Len(calls) : calls[i].handler \in TerminalHandlers}) <= 1

\* C6 witness: an error record was dispatched while the server had written a
\* complete record after it.
C6_Witness ==
    /\ Len(sent) = 2
    /\ sent[1] = WellFormedRecord("error")
    /\ sent[2] = WellFormedRecord("complete")
    /\ terminated
    /\ pos = Len(stream)
    /\ settles = 1
    /\ promise = "rejected"

\* C7: once the server has closed the response body, the promise is
\* eventually settled and isLoading eventually returns to false.
C7_SessionEnds == closed ~> (promise \in {"resolved", "rejected"} /\ ~isLoading)

\* C8: no handler invocation follows the invocation of onComplete or onError
\* for a complete or error record.
C8_NothingAfterTerminal ==
    \A i \in 1..Len(calls) :
        (calls[i].handler \in TerminalHandlers /\ calls[i].body # "transport")
            => i = Len(calls)

\* C8 witness: a complete record was dispatched in a read that also
\* delivered the record after it.
C8_Witness ==
    /\ apiPc = "returned"
    /\ Len(sent) = 2
    /\ sent[1] = WellFormedRecord("complete")
    /\ IsWellFormed(sent[2])
    /\ terminated
    /\ pos = Len(stream)
    /\ Len(calls) = 1

RECURSIVE DispatchableCount(_)
\* the number of well-formed records among recs, up to and including the
\* first complete or error record
DispatchableCount(recs) ==
    IF recs = <<>> THEN 0
    ELSE IF IsTerminal(Head(recs)) THEN 1
    ELSE (IF IsWellFormed(Head(recs)) THEN 1 ELSE 0) + DispatchableCount(Tail(recs))

\* C9: when a session has read its body to the end or to the terminal
\* record without a transport failure, the number of handler invocations is
\* the number of well-formed records written up to and including the terminal
\* one, and the promise is rejected only by an error record: a record that
\* fails to parse neither ends the session nor hides a later record.
C9_MalformedSkipped ==
    (failure = "none" /\ apiPc \in {"returned", "ended"})
        => /\ Len(calls) = DispatchableCount(DelimitedRecords)
           /\ promise = "rejected" => (calls # <<>> /\ Last(calls).body = "error")

\* C9 witness: a record with truncated JSON was followed by a complete
\* record, which was dispatched.
C9_Witness ==
    /\ apiPc = "returned"
    /\ sent = <<TruncatedRecord, WellFormedRecord("complete")>>
    /\ Len(calls) = 1
    /\ promise = "resolved"

\* C10: after a transport failure (failed fetch, non-success status, failed
\* read) the session has made exactly one onError invocation, it is the last
\* handler invocation, and the promise is rejected.
C10_TransportFailure ==
    failure # "none"
        => /\ calls # <<>>
           /\ Last(calls) = [handler |-> "onError", body |-> "transport"]
           /\ Cardinality({i \in 1..Len(calls) : calls[i].handler = "onError"}) = 1
           /\ promise = "rejected"
           /\ settles = 1

\* C10 witness: a read failed after a record had been dispatched.
C10_Witness ==
    /\ failure = "read"
    /\ Len(calls) = 2
    /\ submitPc = "idle"

PhaseCount == Len(InitialPhases)

\* pending, then active, then complete
PhaseRank(s) == CASE s = "pending" -> 0 [] s = "active" -> 1 [] s = "complete" -> 2

\* C2: when the stream ended with a complete record and that record has
\* been handled (its reset timer still pending), progress is 100 and all four
\* phases are complete.
C2_CompleteForcesPhases ==
    (/\ benchPc = "ended"
     /\ benchSent # <<>>
     /\ Last(benchSent) = "complete"
     /\ benchCalls # <<>>
     /\ Last(benchCalls).handler = "onComplete"
     /\ resetTimers > 0)
        => /\ progress = 100
           /\ \A i \in 1..PhaseCount : executionPhases[i] = "complete"

\* C3: at most one phase is active, and no phase is active while a phase to
\* its left is not complete.
C3_OneActivePhase ==
    /\ Cardinality({i \in 1..PhaseCount : executionPhases[i] = "active"}) <= 1
    /\ \A i, j \in 1..PhaseCount :
          (i < j /\ executionPhases[j] = "active") => executionPhases[i] = "complete"

BenchRecordLen == Len(BenchRecord("error") \o RecordDelimiter)

\* the reader has been handed the whole of an error record
ErrorDelivered ==
    \E i \in 1..Len(benchSent) :
        benchSent[i] = "error" /\ benchPos >= i * BenchRecordLen

\* C11: a read that hands over exactly an error record leaves the phases as
\* they were, and once an error record has been handed over, no later read
\* changes the phases, the progress, the status text or the activity log.
C11_InertAfterError ==
    [][/\ (/\ benchPos' = benchPos + BenchRecordLen
           /\ benchPos = (Len(benchSent) - 1) * BenchRecordLen
           /\ benchSent # <<>>
           /\ Last(benchSent) = "error")
          => executionPhases' = executionPhases
       /\ (ErrorDelivered /\ benchPos' > benchPos)
          => UNCHANGED <<executionPhases, progress, status, progressLog>>]_vars

\* the executions whose stream has been requested and has not reached its end
InFlight ==
    orphans \cup (IF benchPc \in {"fetching", "reading"} THEN {execution} ELSE {})

\* C12: at no time are two streaming sessions of the interface in flight.
C12_OneSessionInFlight == Cardinality(InFlight) <= 1

\* C13: a session its caller has let go of (the interface that started it
\* was unmounted) changes no state any more: the result App shows never
\* becomes the result of such a session.
C13_NothingAfterLetGo ==
    [][benchmarkResult' # benchmarkResult => benchmarkResult' \notin orphans]_vars

IsPrefix(a, b) == Len(a) <= Len(b) /\ SubSeq(b, 1, Len(a)) = a

\* C14: within an execution every step leaves the activity log a prefix of
\* the new log, and the step that starts an execution leaves the log empty.
C14_LogAppendOnly ==
    [][IF execution' # execution
       THEN progressLog' = <<>>
       ELSE IsPrefix(progressLog, progressLog')]_vars

\* C14 witness: a second execution whose log, emptied at its start, has grown
\* to two entries.
C14_Witness ==
    /\ execution = 2
    /\ benchmarkResult = 1
    /\ Len(progressLog) = 2

\* the callback invocations of one read that delivers all of bytes at once
BenchSingleReadCalls(bytes) ==
    BenchOnChunk([CurrentBench EXCEPT !.calls = <<>>], bytes, BenchEnv).calls

\* C15: however the reads cut the stream, when the stream has ended each
\* record has been dispatched exactly once: the callbacks invoked are those
\* of a single read of the whole stream.
C15_SplitRecordDispatched ==
    benchPc = "ended" => benchCalls = BenchSingleReadCalls(benchStream)

\* C16: onComplete is invoked at most once, and no onProgress or onComplete
\* invocation follows it.
C16_NothingAfterComplete ==
    \A i, j \in 1..Len(benchCalls) :
        (i < j /\ benchCalls[i].handler = "onComplete")
            => benchCalls[j].handler \notin {"onProgress", "onComplete"}

\* the opportunity pushed first under a name
FirstPushed(name) ==
    opportunities[CHOOSE i \in 1..Len(opportunities) :
                      /\ opportunities[i].name = name
                      /\ \A j \in 1..(i - 1) : opportunities[j].name # name]

\* C17: the returned opportunities have pairwise different names (compared
\* trimmed), and each is the opportunity pushed first under its name: it
\* carries the stage and the value of the line seen first.
C17_FirstOccurrenceKept ==
    /\ \A i, j \in 1..Len(returned) :
          i # j => Trim(returned[i].name) # Trim(returned[j].name)
    /\ \A i \in 1..Len(returned) :
          /\ returned[i].stage = FirstPushed(returned[i].name).stage
          /\ returned[i].value = FirstPushed(returned[i].name).value

\* C17 witness: two lines pushed opportunities of the same name with
\* different stages and different values, and the first of them is returned.
C17_Witness ==
    /\ parsed
    /\ \E i, j \in 1..Len(opportunities) :
          /\ i < j
          /\ opportunities[i].name = opportunities[j].name
          /\ opportunities[i].stage # opportunities[j].stage
          /\ opportunities[i].value # opportunities[j].value
          /\ opportunities[j].stage \notin {Unknown, NoStage}
          /\ \E k \in 1..Len(returned) : returned[k] = opportunities[i]

\* a >= b and a > b on parsed values (false when either is NaN)
NumGE(a, b) == ~a.nan /\ ~b.nan /\ a.val >= b.val
NumGT(a, b) == ~a.nan /\ ~b.nan /\ a.val > b.val

\* C18: at most TopN opportunities are returned, in descending order of
\* their parsed value, and no deduplicated opportunity left out has a value
\* greater than a returned one.
C18_TopFiveByValue ==
    /\ Len(returned) <= TopN
    /\ \A i \in 1..(Len(returned) - 1) :
          NumGE(SortKey(returned[i]), SortKey(returned[i + 1]))
    /\ \A k \in 1..Len(unique) :
          (\A i \in 1..Len(returned) : returned[i] # unique[k])
              => \A i \in 1..Len(returned) :
                    ~NumGT(SortKey(unique[k]), SortKey(returned[i]))

\* C19: the value of every returned opportunity parses to a number that is
\* not negative.
C19_ValuesAreNumbers ==
    \A i \in 1..Len(returned) :
        /\ ~SortKey(returned[i]).nan
        /\ SortKey(returned[i]).val >= 0

\* line i of the content is the numbered Acme Corp row and line i + 2 the
\* remark on Acme Corp
AcmeExample(lines, i) ==
    /\ i + 2 <= Len(lines)
    /\ lines[i] = <<"1", ".", " ", "A", "c", "m", "e", " ", "C", "o", "r", "p", " ", "-", " ", "$", "1", "2", "5", ",", "0", "0", "0", " ", "(", "N", "e", "g", "o", "t", "i", "a", "t", "i", "o", "n", ")">>
    /\ lines[i + 2] = <<"A", "c", "m", "e", " ", "C", "o", "r", "p", " ", "i", "s", " ", "s", "t", "a", "l", "l", "e", "d", " ", "d", "u", "e", " ", "t", "o", " ", "c", "o", "m", "p", "e", "t", "i", "t", "o", "r", " ", "e", "v", "a", "l", "u", "a", "t", "i", "o", "n">>

\* no line before line i contains the name
FirstMention(lines, i) ==
    \A j \in 1..(i - 1) : ~Contains(lines[j], <<"A", "c", "m", "e", " ", "C", "o", "r", "p">>)

\* whether the opportunity has the fields of the example with their values
HasFields(o, example) == \A f \in DOMAIN example : o[f] = example[f]

AcmeOpportunity(risk) ==
    [name |-> <<"A", "c", "m", "e", " ", "C", "o", "r", "p">>,
     value |-> <<"$", "1", "2", "5", ",", "0", "0", "0">>,
     stage |-> <<"N", "e", "g", "o", "t", "i", "a", "t", "i", "o", "n">>,
     risk |-> risk]

\* C20 as stated: the example content yields the Acme Corp opportunity with
\* the risk 'Active competition'.
C20_AcmeExample ==
    parsed => \A lines \in {Split(content, <<LF>>)} : \A i \in 1..Len(lines) :
        AcmeExample(lines, i)
            => \E k \in 1..Len(returned) : HasFields(returned[k], AcmeOpportunity("Active competition"))

\* C20 amended: when the numbered row is the first line that contains
\* 'Acme Corp' and at most TopN names are found, the example content yields
\* the Acme Corp opportunity with the risk 'Deal momentum stalled'.
C20_AcmeExampleStalled ==
    parsed => \A lines \in {Split(content, <<LF>>)} : \A i \in 1..Len(lines) :
        (AcmeExample(lines, i) /\ FirstMention(lines, i) /\ Len(unique) <= TopN)
            => \E k \in 1..Len(returned) :
                  HasFields(returned[k], AcmeOpportunity("Deal momentum stalled"))

\* C20 witness: the example content has been parsed, its numbered row on
\* line 2 after a line that does not name Acme Corp.
C20_Witness ==
    /\ parsed
    /\ \E lines \in {Split(content, <<LF>>)} :
          AcmeExample(lines, 2) /\ FirstMention(lines, 2)
    /\ Len(unique) <= TopN
    /\ Len(returned) >= 2

\* whether the insight is an element of categories[c]
InCategory(insight, c) ==
    \E k \in 1..Len(categories[c]) : categories[c][k] = insight

\* the names of the candidates the content of an insight yields
CandidateNames(insight) ==
    LET pushed == Candidates(insight.content)
    IN  {pushed[k].name : k \in 1..Len(pushed)}

\* whether the render shows something of the insight at index i: a card of
\* one of its candidates, its problem, its recommendation, or its entry in
\* the fallback view
Shown(i) ==
    LET insight == analysis[i]
    IN  \/ /\ InCategory(insight, "opportunities")
           /\ \E k \in 1..Len(cards) : cards[k].name \in CandidateNames(insight)
        \/ /\ InCategory(insight, "problems")
           /\ \E k \in 1..Len(problems) : problems[k].fullContent = insight.content
        \/ InCategory(insight, "recommendations")
        \/ FallbackShown /\ i <= FallbackCount

\* C21: once the component has rendered, every insight of the analysis that
\* has text is shown in the opportunities list, the problems list, the
\* recommendations list or the fallback view.
C21_EveryInsightShown ==
    extractions >= 1 =>
        \A i \in 1..Len(analysis) : analysis[i].content # <<>> => Shown(i)

\* whether the lower-cased title of the insight holds one of the words
TitleHas(insight, keywords) ==
    \E w \in keywords : Contains(LowerCase(insight.title), w)

\* C22: after categorizeInsights every insight of the analysis is in exactly
\* one of the three categories: in opportunities when its title holds an
\* opportunity keyword (whether or not it also holds a problem keyword), in
\* problems when it holds a problem keyword only, in recommendations when it
\* holds neither; and no category holds anything else.
C22_OneCategoryByPriority ==
    extractions >= 1 =>
        /\ Len(categories.opportunities) + Len(categories.problems)
               + Len(categories.recommendations) = Len(analysis)
        /\ \A i \in 1..Len(analysis) :
             LET insight == analysis[i]
                 opp == TitleHas(insight, OpportunityWords)
                 prob == TitleHas(insight, ProblemWords)
             IN  /\ Cardinality({c \in DOMAIN categories : InCategory(insight, c)}) = 1
                 /\ opp => InCategory(insight, "opportunities")
                 /\ (~opp /\ prob) => InCategory(insight, "problems")
                 /\ (~opp /\ ~prob) => InCategory(insight, "recommendations")

\* C22 witness: an analysis of an insight whose title holds keywords of both
\* kinds and one whose title holds none has been categorized.
C22_Witness ==
    /\ extractions >= 1
    /\ \E i, j \in 1..Len(analysis) :
         /\ TitleHas(analysis[i], OpportunityWords)
         /\ TitleHas(analysis[i], ProblemWords)
         /\ InCategory(analysis[i], "opportunities")
         /\ ~TitleHas(analysis[j], OpportunityWords)
         /\ ~TitleHas(analysis[j], ProblemWords)
         /\ InCategory(analysis[j], "recommendations")

\* C27: the extraction runs at most once for the insights of an analysis,
\* however many times the component renders.
C27_ExtractionOncePerSession == extractions <= 1

\* the indices of the lines that, trimmed, match the pattern
TableRows(lines) == {i \in 1..Len(lines) : TableMatch(Trim(lines[i])).ok}
ListRows(lines) == {i \in 1..Len(lines) : ListMatch(Trim(lines[i])).ok}
ColonRows(lines) == {i \in 1..Len(lines) : SimpleMatch(Trim(lines[i])).ok}

\* C25: parseOpportunities pushes at most one candidate per content line that
\* matches a pattern: the candidates pushed are no more than the lines that
\* match the table, the list or the colon pattern.
C25_OneCandidatePerLine ==
    parsed => \A lines \in {Split(content, <<LF>>)} :
        Len(opportunities)
            <= Cardinality(TableRows(lines) \cup ListRows(lines) \cup ColonRows(lines))

\* C25 witness: a content with a table row, a numbered row and a colon row
\* has been parsed and each of its matching lines has pushed a candidate.
C25_Witness ==
    /\ parsed
    /\ \E lines \in {Split(content, <<LF>>)} :
         /\ TableRows(lines) # {}
         /\ ListRows(lines) # {}
         /\ ColonRows(lines) # {}
         /\ Len(opportunities)
                = Cardinality(TableRows(lines) \cup ListRows(lines) \cup ColonRows(lines))

\* every keyword of the tests of extractWhy, extractRisk and extractNextSteps
SignalWords ==
    UNION {WhyWords[k] : k \in DOMAIN WhyWords}
        \cup UNION {NextStepsWords[k] : k \in DOMAIN NextStepsWords}
        \cup StalledWords \cup CompetitionWords \cup BudgetWords \cup StakeholderWords

\* the lines the three functions look at around line i: from the line before
\* it to the fourth line after it
SignalWindow(lines, i) ==
    LowerCase(Join(SubSeq(lines, IF i > 1 THEN i - 1 ELSE 1,
                          IF i + 4 < Len(lines) THEN i + 4 ELSE Len(lines)), <<" ">>))

\* no signal keyword occurs around any line that contains the name
NoSignalNear(lines, name) ==
    \A i \in 1..Len(lines) :
        Contains(lines[i], name)
            => \A w \in SignalWords : ~Contains(SignalWindow(lines, i), w)

\* C26: an opportunity pushed for a name with no signal keyword around the
\* lines that contain it has why, risk and nextSteps all null.
C26_NoDefaultEnrichment ==
    parsed => \A lines \in {Split(content, <<LF>>)} :
        \A k \in 1..Len(opportunities) :
            NoSignalNear(lines, opportunities[k].name)
                => /\ opportunities[k].why = "null"
                   /\ opportunities[k].risk = "null"
                   /\ opportunities[k].nextSteps = "null"

\* C24: the progress held by BenchmarkInterface and the progress held by
\* QueryInterface are within 0..100 in every reachable state.
C24_ProgressInRange ==
    /\ progress \in 0..100
    /\ streamingProgress \in 0..100

\* whether onComplete has run in the current execution
CompletedHere == \E i \in 1..Len(benchCalls) : benchCalls[i].handler = "onComplete"

\* C28: a reset timer that fires in an execution whose onComplete has not
\* run (a timer scheduled by an earlier execution) leaves executing,
\* progress, status, the phases and the activity log of the execution alone.
C28_EarlierExecutionInert ==
    [][(execution > 1 /\ ~CompletedHere /\ resetTimers' < resetTimers)
           => UNCHANGED <<executing, progress, status, executionPhases, progressLog>>]_vars

\* the number of toast.error calls among the notifications
ErrorToasts(notifications) ==
    Cardinality({i \in 1..Len(notifications) : notifications[i] = "error"})

\* C30: a session of QueryInterface and an execution of BenchmarkInterface
\* each call toast.error at most once, and exactly once when they have
\* failed.
C30_OneErrorToast ==
    /\ ErrorToasts(toasts) <= 1
    /\ ErrorToasts(benchToasts) <= 1
    /\ (submitPc = "idle" /\ promise = "rejected") => ErrorToasts(toasts) = 1
    /\ benchPc = "failed" => ErrorToasts(benchToasts) = 1

\* C23: the insights InsightsDashboard shows (none while isLoading) are the
\* insights of the latest session that has started, never those of an
\* earlier one.
C23_EarlierInsightsDiscarded ==
    (~isLoading /\ insights # 0) => insights = session

\* C29: a read that dispatches one tool record without a progress value, and
\* nothing else, leaves the displayed progress as it is.
C29_ToolKeepsProgress ==
    [][(calls' = Append(calls, [handler |-> "onTool", body |-> "tool"]))
           => streamingProgress' = streamingProgress]_vars

====
